---- MODULE Spec2Model ----
(***************************************************************************)
(* Per-account game loop of bot/core/tapper.py (BaseBot.process_bot_logic) *)
(* and the action primitives it calls.                                     *)
(*                                                                         *)
(* One action is one step of the coroutine: one remote call together with  *)
(* the handling of its result and the sleeps that directly follow it.      *)
(* Remote answers are inputs, drawn with \E from small sets.               *)
(*                                                                         *)
(* trace is the log of the current loop iteration (requests, collaborator  *)
(* calls and sleeps, in order).  It is emptied by Begin, so in a state     *)
(* with pc = "start" it holds the whole previous iteration.  The entries   *)
(* of the recurring sweep are logged while the sweep runs and folded into  *)
(* one entry when the poll that follows it begins.                         *)
(*                                                                         *)
(* Time: tokenAge is time() - access_token_created_time in seconds, kept   *)
(* up to the token lifetime; a sleep of d seconds adds d to it.            *)
(***************************************************************************)
EXTENDS Integers, Sequences, FiniteSets, TLC

VARIABLES
    pc,                 \* position of the coroutine in run / process_bot_logic
    access_token,       \* self._access_token: "none" or "tok"
    tokenAge,           \* time() - access_token_created_time, up to TokenTTL
    is_first_run,       \* self._is_first_run
    active_turbo,       \* local active_turbo
    balance,            \* local balance
    available_energy,   \* local available_energy
    min_energy,         \* local min_energy
    boosts_info,        \* local boosts_info (last fetched boost state)
    status,             \* local status (collectStatus of the last tap)
    tap_data,           \* local tap_data: "empty", "full" or "noamount"
    upgraded,           \* local upgraded
    todo,               \* sweep: items left in the list being walked
    attempt,            \* process_daily_mission: local attempt
    staleAtStart,       \* history: was the token stale when the iteration began
    trace,              \* history: log of the current iteration
    call,               \* one activation of make_request (its locals, its log)
    run_log,            \* history: log of the current iteration of run()'s loop
    referrals,          \* history: claimGiftBox requests sent, up to MaxReferrals
    runners,            \* per account: where its run_tapper task is
    process,            \* the interpreter: "running" or "exited"
    dicts,              \* the `token` entry of HEADERS and of each account's _headers
    lastSent,           \* the account and `token` header of the last request sent
    transport,          \* self._current_proxy, self._http_client and the clients made
    disk,               \* wallet_config.json, accounts_config.json and the temp wallet files
    round,              \* which sweep of two in succession (0: not counted)
    items,              \* the remote: status and claim calls of the items followed
    walk                \* the pending items of the list being walked

vars == <<pc, access_token, tokenAge, is_first_run, active_turbo, balance,
          available_energy, min_energy, boosts_info, status, tap_data,
          upgraded, todo, attempt, staleAtStart, trace, call,
          run_log, referrals, runners, process, dicts, lastSent, transport, disk,
          round, items, walk>>

----------------------------------------------------------------------------
(* Settings (bot/config/config.py) and literals of tapper.py *)

TokenTTL == 3600
max_retries == 3
base_delay == 5
SESSION_START_DELAY == 360
GateRetryDelay == 300
RetrySleepMin == 60
RetrySleepMax == 120
SleepBetweenTapMin == 3
SleepBetweenTapMax == 8
SleepByMinEnergyMin == 1800
SleepByMinEnergyMax == 10800
RandomTapsCountMin == 35
RandomTapsCountMax == 100
MIN_AVAILABLE_ENERGY == 10
MAX_TAP_LEVEL == 10
MAX_ENERGY_LEVEL == 10
MAX_CHARGE_LEVEL == 10
TurboSettleDelay == 10
ErrorDelay == 3
UpgradeSettleDelay == 1
TurboActivateDelay == 1
UnknownErrorDelay == 3
TapBoostId == 1
ChargeBoostId == 2
\* the energy upgrade sent under the id of the charge upgrade
EnergyBoostIdSwapped == ChargeBoostId
EnergyBoostId == 3
OfflineClaimDelay == 2
SquadRetryDelay == 2
MaxSquadTries == 3
TaskClickDelay == 5
MissionClickDelay == 7
MissionCheckDelay == 5
MissionRetryDelay == 5
MissionDoneDelay == 5
MaxMissionAttempts == 2

(* Bounds of the inputs the remote may answer with *)
TotalEnergy == 500
LowEnergy == 30
Balance == 1000
CheapPrice == 500
DearPrice == 5000
LowLevel == 3
MaxPending == 1
MaxAwake == 8
MaxReferrals == 2
MaxIterations == 3
MaxItems == 1
MaxTasks == 2
MaxClients == 3
MaxEnergyBoosts == 1
MaxWallets == 2

Min(a, b) == IF a <= b THEN a ELSE b


----------------------------------------------------------------------------
(* Wall clock, in seconds *)

\* time() - access_token_created_time after d more seconds.  Only the
\* comparison with the token lifetime reads it, so it is kept up to there.
Elapse(age, d) == Min(age + d, TokenTTL)

\* The iterations explored: the short sleeps since the login, or since the
\* coarse sleep that came after it, total at most MaxAwake seconds.
AgeBases == {0, SleepByMinEnergyMin, TokenTTL - TurboSettleDelay, TokenTTL}
AgeBase(age) == CHOOSE b \in AgeBases :
                   b <= age /\ \A c \in AgeBases : c <= age => c <= b
WithinBounds(age) == age - AgeBase(age) <= MaxAwake

\* a `>` in place of the `>=` of the token check
TokenExpiredStrict == tokenAge > TokenTTL

\* tapper.py:201  time() - access_token_created_time >= 3600
TokenExpired == tokenAge >= TokenTTL

----------------------------------------------------------------------------
(* make_request: the token header and the classes of its result *)

\* keys of the module-level HEADERS dict (bot/core/headers.py)
HEADERS == {"accept", "accept-language", "cache-control", "content-type", "dnt",
            "origin", "pragma", "priority", "referer", "sec-ch-ua",
            "sec-ch-ua-mobile", "sec-ch-ua-platform", "sec-fetch-dest",
            "sec-fetch-mode", "sec-fetch-site", "user-agent"}

NoHeaders == {}

\* the access token never put into the headers
TokenHeaderUnset(callerHeaders) ==
    IF "token" \in callerHeaders THEN "caller" ELSE "none"

\* tapper.py:136-140: the `token` header of a request: the access token, if
\* any, unless the caller's headers carry a `token` key of their own.
\* "none": no token; "fresh"/"stale": the access token, by its age when sent.
TokenHeader(callerHeaders) ==
    IF "token" \in callerHeaders THEN "caller"
    ELSE IF access_token = "none" THEN "none"
    ELSE IF tokenAge >= TokenTTL THEN "stale"
    ELSE "fresh"

\* Log entries.  A request: the primitive, its argument, its token header and
\* whether the answer r carried a payload.
Req(op, arg, r) ==
    [op |-> op, arg |-> arg, tok |-> TokenHeader(NoHeaders), ok |-> (r = "ok")]
LoginReq(r) ==
    [op |-> "login", arg |-> 0, tok |-> TokenHeader(HEADERS), ok |-> (r = "ok")]
Ext(op, ok) == [op |-> op, arg |-> 0, tok |-> "ext", ok |-> ok]
Sleep(d) == [op |-> "sleep", arg |-> d, tok |-> "sleep", ok |-> FALSE]

\* What make_request hands back:
\*   "null"   None (HTTP 429, another non-200 status, or 3 network failures)
\*   "nokey"  a body without the key the primitive reads: the primitive's
\*            except branch runs (sleep 3, falsy result)
\*   "nodata" a body whose data is null or empty
\*   "ok"     a body with a payload
Responses == {"null", "nokey", "nodata", "ok"}

\* `except Exception: ... await asyncio.sleep(3)` of the primitives
CaughtSleep(r) == IF r = "nokey" THEN <<Sleep(ErrorDelay)>> ELSE <<>>

\* an exception raised in the body of the loop of process_bot_logic,
\* outside the primitives
Raise(exc) == [op |-> "raise", arg |-> 0, tok |-> exc, ok |-> FALSE]

\* every exception handed on to the caller
HandlerReraise(exc) == "fatal"

\* tapper.py:449-454: where the handlers of the loop lead: InvalidSession
\* leaves the coroutine, anything else goes to the next iteration
Handler(exc) == IF exc = "InvalidSession" THEN "fatal" ELSE "start"

\* tapper.py:452-454: the log of an exception caught by `except Exception`
Caught(exc) == <<Raise(exc), Sleep(UnknownErrorDelay)>>

\* randint(a, b): the ends of the interval stand for the draw
Randint(a, b) == {a, b}

\* randint(a, b) before a long sleep: the ends, and the draw after which the
\* token is TurboSettleDelay seconds short of its lifetime
RandintLong(a, b, age) ==
    {a, b} \cup {d \in {TokenTTL - TurboSettleDelay - age} : a <= d /\ d <= b}

SleepTotal(events) ==
    LET RECURSIVE Sum(_)
        Sum(i) == IF i = 0 THEN 0
                  ELSE Sum(i - 1) + (IF events[i].op = "sleep" THEN events[i].arg ELSE 0)
    IN  Sum(Len(events))

\* append events to the log; the clock advances by the sleeps among them
Log(events) ==
    /\ trace' = trace \o events
    /\ tokenAge' = Elapse(tokenAge, SleepTotal(events))

\* The log of the sweep: each stage of the sweep (a process_* call, the
\* profile fetch, the activity block) opens with an entry naming it, and the
\* requests and sleeps of the stage before it are dropped from the log then.
Enter(stage) == [op |-> stage, arg |-> 0, tok |-> "enter", ok |-> FALSE]
Folded(t) == SelectSeq(t, LAMBDA e : e.tok \in {"ext", "enter"} \/ e.op = "login")

LogStage(stage, events) ==
    /\ trace' = Folded(trace) \o <<Enter(stage)>> \o events
    /\ tokenAge' = Elapse(tokenAge, SleepTotal(events))

\* first request of the poll: the last stage of the sweep, if any, is folded
LogPoll(events) ==
    /\ trace' = Folded(trace) \o events
    /\ tokenAge' = Elapse(tokenAge, SleepTotal(events))

----------------------------------------------------------------------------
(* Inputs: what the remote answers *)

\* coinPoolLeftCount / coinPoolTotalCount of getGameInfo
TotalEnergies == {0, TotalEnergy}
MinEnergyOf(total) == (total * MIN_AVAILABLE_ENERGY) \div 100
EnergiesOf(total) ==
    {0, LowEnergy, MinEnergyOf(total), MinEnergyOf(total) + 1, total}

Unread == [level |-> 0, cost |-> 0]

\* one upgradeable resource of getAccountBuildInfo: current level, next cost
Resources(maxLevel) == {[level |-> LowLevel, cost |-> CheapPrice],
                        [level |-> LowLevel, cost |-> DearPrice],
                        [level |-> maxLevel, cost |-> CheapPrice]}

\* coinPoolLeftRecoveryCount, the energy-boost activations left, is read into
\* energy_boost_count (tapper.py:307), which nothing reads: one count stands
\* for all, except where the activations the remote holds are followed
EnergyBoostCounts ==
    IF "energy_boost" \in DOMAIN items THEN {items["energy_boost"]} ELSE {0}

\* The upgrade fields are read only when the polled energy is 0
\* (tapper.py:371-379): for the other polls one payload stands for all.
BoostPayloads(energy) ==
    [specialBoxLeftRecoveryCount : {0, 1},
     coinPoolLeftRecoveryCount : EnergyBoostCounts,
     currentAmount : {Balance},
     tap : IF energy = 0 THEN Resources(MAX_TAP_LEVEL) ELSE {Unread},
     energy : IF energy = 0 THEN Resources(MAX_ENERGY_LEVEL) ELSE {Unread},
     charge : IF energy = 0 THEN Resources(MAX_CHARGE_LEVEL) ELSE {Unread}]

NoBoosts == [specialBoxLeftRecoveryCount |-> 0, coinPoolLeftRecoveryCount |-> 0,
             currentAmount |-> 0,
             tap |-> Unread, energy |-> Unread, charge |-> Unread]

\* no activation of make_request under way
NoCall == [at |-> "idle", attempt |-> 0, log |-> <<>>, result |-> "pending",
           http_client |-> TRUE, headers |-> {}]

\* what the loop of process_bot_logic does not touch: the activation of
\* make_request looked at on its own, and the log of run()
outside == <<call, run_log, referrals, runners, process, dicts, lastSent, transport,
             disk,
             round>>
elsewhere == <<outside, items, walk>>

----------------------------------------------------------------------------
Init ==
    /\ pc = "initialize_session"
    /\ access_token = "none"
    /\ tokenAge = TokenTTL
    /\ is_first_run = FALSE         \* None
    /\ active_turbo = FALSE
    /\ balance = 0
    /\ available_energy = 0
    /\ min_energy = 0
    /\ boosts_info = NoBoosts
    /\ status = FALSE
    /\ tap_data = "empty"
    /\ upgraded = FALSE
    /\ todo = 0
    /\ attempt = 0
    /\ staleAtStart = FALSE
    /\ trace = <<>>
    /\ call = NoCall
    /\ run_log = <<>>
    /\ referrals = 0
    /\ runners = <<>>
    /\ process = "running"
    /\ dicts = <<>>
    /\ lastSent = <<>>
    /\ transport = <<>>
    /\ disk = <<>>
    /\ round = 0
    /\ items = <<>>
    /\ walk = <<>>

locals == <<available_energy, min_energy, boosts_info, status, tap_data, upgraded>>
session == <<access_token, is_first_run, active_turbo>>
sweep == <<todo, attempt>>

----------------------------------------------------------------------------
(* run (tapper.py:161-192) and run_tapper (tapper.py:1152-1157) *)

runFrame == <<access_token, locals, sweep, staleAtStart, trace, call, referrals,
             runners, process, dicts, lastSent, transport, disk, round, items, walk>>

\* initialize_session (tapper.py:113-123), and `return` when it fails
InitializeSession ==
    /\ pc = "initialize_session"
    /\ \E ok \in BOOLEAN, first \in BOOLEAN :
        IF ok
        THEN pc' = "start_delay" /\ is_first_run' = first
        ELSE pc' = "returned" /\ is_first_run' = is_first_run
    /\ UNCHANGED <<runFrame, tokenAge, active_turbo, balance, run_log>>

\* tapper.py:165-167: sleep(uniform(1, SESSION_START_DELAY)); the ends of the
\* interval stand for the draw
StartDelay ==
    /\ pc = "start_delay"
    /\ \E d \in {1, SESSION_START_DELAY} : run_log' = <<Sleep(d)>>
    /\ pc' = "proxy_gate"
    /\ UNCHANGED <<runFrame, tokenAge, is_first_run, active_turbo, balance>>

\* the gate passed whatever it reported
GateNextOpen(ok) == "start"

\* tapper.py:180-185: after check_and_update_proxy returned ok
GateNext(ok) == IF ok THEN "start" ELSE "proxy_gate"

\* the retry taken for every exception
RunHandlerRetry(exc) == "proxy_gate"

\* tapper.py:187-192: the handlers of run(): InvalidSession is raised again
\* (run_tapper logs it and ends), anything else is retried after a sleep
RunHandler(exc) == IF exc = "InvalidSession" THEN "abandoned" ELSE "proxy_gate"

\* uniform(60, 120), tapper.py:190
RetrySleeps == {RetrySleepMin, RetrySleepMax}

\* the log of run() when exc reaches its handlers
RunCaught(exc, d) ==
    IF RunHandler(exc) = "abandoned" THEN <<Raise(exc)>>
    ELSE <<Raise(exc), Sleep(d)>>

\* tapper.py:177-185: one pass of the loop of run() up to the call of
\* process_bot_logic (tapper.py:194-197: its locals).  get_session_config or
\* the gate may raise.
ProxyGate ==
    /\ pc = "proxy_gate"
    /\ \E outcome \in {"proxy", "noproxy", "error"}, d \in RetrySleeps :
        IF outcome = "error"
        THEN /\ run_log' = RunCaught("Exception", d)
             /\ pc' = RunHandler("Exception")
             /\ UNCHANGED <<tokenAge, active_turbo, balance>>
        ELSE /\ pc' = GateNext(outcome = "proxy")
             /\ IF pc' = "start"
                THEN /\ run_log' = <<Ext("check_and_update_proxy", outcome = "proxy")>>
                     /\ tokenAge' = TokenTTL     \* access_token_created_time = 0
                     /\ active_turbo' = FALSE
                     /\ balance' = 0
                ELSE /\ run_log' = <<Ext("check_and_update_proxy", FALSE),
                                      Sleep(GateRetryDelay)>>
                     /\ UNCHANGED <<tokenAge, active_turbo, balance>>
    /\ UNCHANGED <<runFrame, is_first_run>>

\* InvalidSession leaves process_bot_logic and reaches the handlers of run()
Propagate ==
    /\ pc = "fatal"
    /\ \E d \in RetrySleeps : run_log' = RunCaught("InvalidSession", d)
    /\ pc' = RunHandler("InvalidSession")
    /\ UNCHANGED <<runFrame, tokenAge, is_first_run, active_turbo, balance>>

----------------------------------------------------------------------------
(* process_bot_logic (tapper.py:194-454) *)

\* top of `while True` (tapper.py:199-201): the token check.  The locals of
\* the poll (game and boost snapshot, tap result, upgraded) and of the sweep
\* are assigned before they are read in every iteration: the model forgets
\* the values of the previous iteration here.
\* the sweep entered whether or not the token was renewed
IterationStartSweeps(expired) == IF expired THEN "auth" ELSE "offline"

\* tapper.py:201 and 277: re-authentication and sweep when the token has
\* expired, else straight to the poll
IterationStart(expired) == IF expired THEN "auth" ELSE "game"

Begin ==
    /\ pc = "start"
    /\ WithinBounds(tokenAge)
    /\ trace' = <<>>
    /\ staleAtStart' = (tokenAge >= TokenTTL)
    /\ pc' = IterationStart(TokenExpired)
    /\ available_energy' = 0
    /\ min_energy' = 0
    /\ boosts_info' = NoBoosts
    /\ status' = FALSE
    /\ tap_data' = "empty"
    /\ upgraded' = FALSE
    /\ todo' = 0
    /\ attempt' = 0
    /\ UNCHANGED <<access_token, tokenAge, is_first_run, active_turbo, balance>>
    /\ UNCHANGED elsewhere

\* get_tg_web_data (tapper.py:61-88): the launch payload, or InvalidSession
GetTgWebData ==
    /\ pc = "auth"
    /\ \E ok \in BOOLEAN :
        /\ Log(<<Ext("get_tg_web_data", ok)>>)
        /\ pc' = IF ok THEN "login" ELSE "fatal"
    /\ UNCHANGED <<session, balance, locals, sweep, staleAtStart>>
    /\ UNCHANGED elsewhere

\* login (tapper.py:456-484) and tapper.py:203-206
\*   "null"     make_request returned None
\*   "badcode"  a body whose code is not 0
\*   "notoken"  code 0, but no data or no data.token
\*   "ok"       code 0 and data.token
LoginResponses == {"null", "badcode", "notoken", "ok"}

\* the check of data.token left out
LoginAcceptedUnchecked(r) == r \in {"ok", "notoken"}

\* tapper.py:467-474: the three checks of login all pass
LoginAccepted(r) == r = "ok"

\* the creation time of the token left as it was
AgeAfterLoginKept(age) == age

\* tapper.py:204 `access_token_created_time = time()`
AgeAfterLogin(age) == 0

Login ==
    /\ pc = "login"
    /\ \E r \in LoginResponses :
        IF LoginAccepted(r)
        THEN /\ trace' = Append(trace, LoginReq(r))
             /\ access_token' = "tok"
             /\ tokenAge' = AgeAfterLogin(tokenAge)
             /\ pc' = IF is_first_run THEN "referral" ELSE "offline"
        ELSE /\ Log(<<LoginReq(r), Sleep(ErrorDelay)>>)
             /\ pc' = "fatal"
             /\ UNCHANGED access_token
    /\ UNCHANGED <<is_first_run, active_turbo, balance, locals, sweep, staleAtStart>>
    /\ UNCHANGED elsewhere

----------------------------------------------------------------------------
(* The recurring sweep, tapper.py:206-275: runs after a login *)

sweepFrame == <<session, balance, locals, staleAtStart>>

\* `return response['data'] if response else {}` of the get_* primitives:
\* the result is truthy only for a body with a payload
Truthy(r) == r = "ok"

\* The remote's items.  Of a kind that is not followed, a list fetch may
\* bring any number of pending items.  Of a kind that is followed, the remote
\* has MaxItems items, each with its status and the number of claim calls
\* made for it, and it changes in one way only: an item is marked done when
\* a claim call for it succeeds.
Kinds == {"signin", "task", "mission"}
Followed(kind) == kind \in DOMAIN items
Ids == 1..MaxItems
\* the status of an item not yet claimed, and a status other than that
Pending == 0
Done == Pending + 1

\* every listed item taken for pending
IsPendingAny(st) == TRUE

\* `if task_status == 0` (tapper.py:786, 810), `if mission_status == 0`
\* (tapper.py:926), `signin['status'] == 1 and signin['checkIn'] == 0`
\* (tapper.py:1139)
IsPending(st) == st = Pending

\* the items of the fetched list that pass the filter, in list order
Listed(kind) ==
    SelectSeq([id \in Ids |-> id], LAMBDA id : IsPending(items[kind][id].status))

\* how many items the walk of a fetched list may find pending; in the two
\* sweeps in succession the remote has no pending item of another kind
PendingCounts(kind) ==
    IF Followed(kind) THEN {Len(Listed(kind))}
    ELSE IF round = 0 THEN 0..(IF kind = "task" THEN MaxTasks ELSE MaxPending)
    ELSE {0}

\* the first n pending items of the list fetched with answer r
Walked(kind, r, n) ==
    IF Followed(kind) /\ r = "ok" THEN SubSeq(Listed(kind), 1, n) ELSE <<>>

\* the item the walk is at
Current == IF pc = "signin_claim" THEN walk[1] ELSE walk[Len(walk) - todo + 1]

\* a claim call for the item the walk is at, and what the remote makes of it
ClaimCall(kind, success) ==
    items' = IF Followed(kind)
             THEN [items EXCEPT ![kind][Current] =
                     [status |-> IF success THEN Done ELSE @.status,
                      claims |-> @.claims + 1]]
             ELSE items

\* tapper.py:206-228: referral claim, its failure swallowed
Referral ==
    /\ pc = "referral"
    /\ \E r \in Responses :
        /\ LogStage("referral", <<Req("claimGiftBox", 0, r)>>)
        /\ pc' = "offline"
    /\ referrals' = Min(referrals + 1, MaxReferrals)
    /\ UNCHANGED <<sweepFrame, sweep, call, run_log, runners, process, dicts, lastSent,
                   transport, disk,
                   round, items, walk>>

\* process_offline_bonus (tapper.py:1112-1130): fetch the bonus list
OfflineBonus ==
    /\ pc = "offline"
    /\ \E r \in Responses, n \in 0..MaxPending :
        /\ LogStage("process_offline_bonus",
                    <<Req("get_offline_bonus_info", 0, r)>> \o CaughtSleep(r))
        /\ IF Truthy(r) /\ n > 0
           THEN todo' = n /\ pc' = "offline_claim"
           ELSE todo' = 0 /\ pc' = "signin"
    /\ UNCHANGED <<sweepFrame, attempt>>
    /\ UNCHANGED elsewhere

\* claim_offline_bonus for one collectable bonus, then sleep(2)
OfflineClaim ==
    /\ pc = "offline_claim"
    /\ \E r \in Responses :
        /\ Log(<<Req("claim_offline_bonus", 0, r)>> \o CaughtSleep(r)
                \o <<Sleep(OfflineClaimDelay)>>)
        /\ todo' = todo - 1
        /\ pc' = IF todo = 1 THEN "signin" ELSE "offline_claim"
    /\ UNCHANGED <<sweepFrame, attempt>>
    /\ UNCHANGED elsewhere

\* process_signin (tapper.py:1132-1149): fetch the list; eligible says whether
\* an entry has status = 1 and checkIn = 0
Signin ==
    /\ pc = "signin"
    /\ \E r \in Responses, n \in PendingCounts("signin") :
        LET eligible == n > 0 IN
        /\ LogStage("process_signin", <<Req("get_signin_list", 0, r)>> \o CaughtSleep(r))
        /\ pc' = IF Truthy(r) /\ eligible THEN "signin_claim" ELSE "squad"
        /\ walk' = Walked("signin", r, Min(n, 1))
    /\ UNCHANGED <<sweepFrame, sweep>>
    /\ UNCHANGED <<outside, items>>

\* the loop left only after a claim that succeeded
AfterSigninClaimRetry(ok) == IF ok THEN "squad" ELSE "signin_claim"

\* tapper.py:1145 `break`, whatever claim_signin returned
AfterSigninClaim(ok) == "squad"

\* claim_signin for the first eligible entry, then break
SigninClaim ==
    /\ pc = "signin_claim"
    /\ \E r \in Responses :
        /\ Log(<<Req("claim_signin", 0, r)>> \o CaughtSleep(r))
        /\ ClaimCall("signin", r = "ok")
        /\ pc' = AfterSigninClaim(r = "ok")
    /\ UNCHANGED <<sweepFrame, sweep>>
    /\ UNCHANGED <<outside, walk>>

\* what the server holds for the account when get_squad_info is sent: the
\* isJoinSquad of the payload, if one comes back
Membership(joined) == [op |-> "isJoinSquad", arg |-> 0, tok |-> "server", ok |-> joined]

\* process_squad (tapper.py:1003-1033): get_squad_info.  A null data makes
\* squad_info.get raise: process_squad sleeps 3 and returns.  Without a
\* payload squad_info is {} and .get('isJoinSquad') is None.
SquadInfo ==
    /\ pc = "squad"
    /\ \E r \in Responses, joined \in BOOLEAN :
        /\ LogStage("process_squad", <<Membership(joined), Req("get_squad_info", 0, r)>>
                \o CaughtSleep(r)
                \o (IF r = "nodata" THEN <<Sleep(ErrorDelay)>> ELSE <<>>))
        /\ pc' = IF r = "nodata" \/ (r = "ok" /\ joined)
                 THEN "profile" ELSE "squad_rec"
    /\ UNCHANGED <<sweepFrame, sweep>>
    /\ UNCHANGED elsewhere

\* get_recommended_squads (tapper.py:966-976) and squads[:3]; n is the
\* length of the list.  A body without `data` gives [] with no sleep, a null
\* data raises inside the primitive.
SquadRecommended ==
    /\ pc = "squad_rec"
    /\ \E r \in Responses, n \in 0..MaxPending :
        /\ Log(<<Req("get_recommended_squads", 0, r)>>
                \o (IF r = "nodata" THEN <<Sleep(ErrorDelay)>> ELSE <<>>))
        /\ IF Truthy(r) /\ n > 0
           THEN todo' = Min(n, MaxSquadTries) /\ pc' = "squad_join"
           ELSE todo' = 0 /\ pc' = "profile"
    /\ UNCHANGED <<sweepFrame, attempt>>
    /\ UNCHANGED elsewhere

\* join_squad (tapper.py:978-1001): stop at the first success, else sleep(2)
SquadJoin ==
    /\ pc = "squad_join"
    /\ \E r \in Responses :
        IF Truthy(r)
        THEN /\ Log(<<Req("join_squad", 0, r)>>)
             /\ todo' = 0
             /\ pc' = "profile"
        ELSE /\ Log(<<Req("join_squad", 0, r)>> \o CaughtSleep(r)
                     \o <<Sleep(SquadRetryDelay)>>)
             /\ todo' = todo - 1
             /\ pc' = IF todo = 1 THEN "profile" ELSE "squad_join"
    /\ UNCHANGED <<sweepFrame, attempt>>
    /\ UNCHANGED elsewhere

\* tapper.py:235-242: get_profile_data; without a profile the iteration ends
\* (`continue`) with the rest of the sweep not run
SweepProfile ==
    /\ pc = "profile"
    /\ \E r \in Responses :
        /\ LogStage("profile", <<Req("get_profile_data", 0, r)>> \o CaughtSleep(r))
        /\ IF Truthy(r)
           THEN balance' = Balance /\ pc' = "activity"
           ELSE balance' = balance /\ pc' = "start"
    /\ UNCHANGED <<session, locals, sweep, staleAtStart>>
    /\ UNCHANGED elsewhere

\* tapper.py:244-262: get_activity_status("TGE"); notJoined is joinStatus = 0
ActivityStatus ==
    /\ pc = "activity"
    /\ \E r \in Responses, notJoined \in BOOLEAN :
        /\ LogStage("activity", <<Req("get_activity_status", 0, r)>> \o CaughtSleep(r))
        /\ pc' = IF Truthy(r) /\ notJoined THEN "activity_join" ELSE "task_list"
    /\ UNCHANGED <<sweepFrame, sweep>>
    /\ UNCHANGED elsewhere

\* join_activity("TGE") (tapper.py:673-684)
ActivityJoin ==
    /\ pc = "activity_join"
    /\ \E r \in Responses :
        /\ Log(<<Req("join_activity", 0, r)>> \o CaughtSleep(r))
        /\ pc' = "task_list"
    /\ UNCHANGED <<sweepFrame, sweep>>
    /\ UNCHANGED elsewhere

\* process_tasks (tapper.py:774-838): get_task_list; n is the number of
\* entries of taskList and specialTaskList with taskStatus = 0
TaskList ==
    /\ pc = "task_list"
    /\ \E r \in Responses, n \in PendingCounts("task") :
        /\ LogStage("process_tasks", <<Req("get_task_list", 0, r)>> \o CaughtSleep(r))
        /\ IF ~Truthy(r) THEN todo' = 0 /\ pc' = "mission_list"
           ELSE IF n > 0 THEN todo' = n /\ pc' = "task_click"
           ELSE todo' = 0 /\ pc' = "task_bonus"
        /\ walk' = Walked("task", r, n)
    /\ UNCHANGED <<sweepFrame, attempt>>
    /\ UNCHANGED <<outside, items>>

\* the walk of the lists left at the first task that is over
NextTaskNone == "task_bonus"

\* the next task of the walk, or get_task_bonus_info after the last one
NextTask == IF todo = 1 THEN "task_bonus" ELSE "task_click"

\* click_task, then sleep(5) when it succeeded
TaskClick ==
    /\ pc = "task_click"
    /\ \E r \in Responses :
        IF Truthy(r)
        THEN /\ Log(<<Req("click_task", 0, r), Sleep(TaskClickDelay)>>)
             /\ pc' = "task_check"
             /\ todo' = todo
        ELSE /\ Log(<<Req("click_task", 0, r)>> \o CaughtSleep(r))
             /\ pc' = NextTask
             /\ todo' = todo - 1
    /\ UNCHANGED <<sweepFrame, attempt>>
    /\ UNCHANGED elsewhere

TaskCheck ==
    /\ pc = "task_check"
    /\ \E r \in Responses :
        /\ Log(<<Req("check_task", 0, r)>> \o CaughtSleep(r))
        /\ IF Truthy(r)
           THEN pc' = "task_claim" /\ todo' = todo
           ELSE pc' = NextTask /\ todo' = todo - 1
    /\ UNCHANGED <<sweepFrame, attempt>>
    /\ UNCHANGED elsewhere

TaskClaim ==
    /\ pc = "task_claim"
    /\ \E r \in Responses :
        /\ Log(<<Req("claim_task_reward", 0, r)>> \o CaughtSleep(r))
        /\ ClaimCall("task", Truthy(r))
        /\ pc' = NextTask
        /\ todo' = todo - 1
    /\ UNCHANGED <<sweepFrame, attempt>>
    /\ UNCHANGED <<outside, walk>>

\* get_task_bonus_info, tapper.py:828
TaskBonusInfo ==
    /\ pc = "task_bonus"
    /\ \E r \in Responses :
        /\ Log(<<Req("get_task_bonus_info", 0, r)>> \o CaughtSleep(r))
        /\ pc' = "mission_list"
    /\ UNCHANGED <<sweepFrame, sweep>>
    /\ UNCHANGED elsewhere

\* process_daily_missions (tapper.py:907-952): get_daily_missions; n is the
\* number of missions with missionStatus = 0
MissionList ==
    /\ pc = "mission_list"
    /\ \E r \in Responses, n \in PendingCounts("mission") :
        /\ IF Truthy(r) /\ n > 0
           THEN todo' = n /\ pc' = "mission_click"
           ELSE todo' = 0 /\ pc' = "game"
        /\ LogStage("process_daily_missions",
                    <<Req("get_daily_missions", 0, r)>> \o CaughtSleep(r))
        /\ attempt' = 0
        /\ walk' = Walked("mission", r, n)
    /\ UNCHANGED sweepFrame
    /\ UNCHANGED <<outside, items>>

\* process_daily_mission returned (True or False): sleep(5), next mission
MissionDone(events) ==
    /\ todo' = todo - 1
    /\ attempt' = 0
    /\ pc' = IF todo = 1 THEN "game" ELSE "mission_click"
    /\ Log(events \o <<Sleep(MissionDoneDelay)>>)

\* a sub-step that failed ends the mission at once
MissionRetryNever(events) == MissionDone(events)

\* a sub-step of process_daily_mission (tapper.py:852-905) failed:
\* `continue` to the second attempt (after sleep(5)), or give up
MissionRetry(events) ==
    IF attempt + 1 < MaxMissionAttempts
    THEN /\ Log(events \o <<Sleep(MissionRetryDelay)>>)
         /\ attempt' = attempt + 1
         /\ todo' = todo
         /\ pc' = "mission_click"
    ELSE MissionDone(events)

\* the body lacks `data`: click_response['data'] raises, process_daily_mission
\* sleeps 3 and returns False without a second attempt
MissionRaised(events) == MissionDone(events \o <<Sleep(ErrorDelay)>>)

MissionClick ==
    /\ pc = "mission_click"
    /\ \E r \in Responses :
        CASE r = "ok" ->
               /\ Log(<<Req("clickDailyMission", 0, r), Sleep(MissionClickDelay)>>)
               /\ pc' = "mission_check"
               /\ UNCHANGED sweep
          [] r = "nokey" -> MissionRaised(<<Req("clickDailyMission", 0, r)>>)
          [] OTHER -> MissionRetry(<<Req("clickDailyMission", 0, r)>>)
    /\ UNCHANGED sweepFrame
    /\ UNCHANGED elsewhere

MissionCheck ==
    /\ pc = "mission_check"
    /\ \E r \in Responses :
        CASE r = "ok" ->
               /\ Log(<<Req("checkDailyMission", 0, r), Sleep(MissionCheckDelay)>>)
               /\ pc' = "mission_claim"
               /\ UNCHANGED sweep
          [] r = "nokey" -> MissionRaised(<<Req("checkDailyMission", 0, r)>>)
          [] OTHER -> MissionRetry(<<Req("checkDailyMission", 0, r)>>)
    /\ UNCHANGED sweepFrame
    /\ UNCHANGED elsewhere

\* tapper.py:887: `if not claim_response or not claim_response.get('data')`
MissionClaimed(r) == r = "ok"

\* claim: claim_response.get('data'), so a body without `data` is a plain failure
MissionClaim ==
    /\ pc = "mission_claim"
    /\ \E r \in Responses :
        /\ IF MissionClaimed(r)
           THEN MissionDone(<<Req("claimReward", 0, r)>>)
           ELSE MissionRetry(<<Req("claimReward", 0, r)>>)
        /\ ClaimCall("mission", r = "ok")
    /\ UNCHANGED sweepFrame
    /\ UNCHANGED <<outside, walk>>

----------------------------------------------------------------------------
(* Poll and decide, tapper.py:277-437 *)

\* the delay drawn from SLEEP_BETWEEN_TAP instead
CoarseSleepsShort == Randint(SleepBetweenTapMin, SleepBetweenTapMax)

\* randint(SLEEP_BY_MIN_ENERGY[0], SLEEP_BY_MIN_ENERGY[1])
CoarseSleeps == RandintLong(SleepByMinEnergyMin, SleepByMinEnergyMax, tokenAge)

pollFrame == <<session, sweep, staleAtStart>>

\* tapper.py:277-293: get_game_data.  No payload: coarse sleep, `continue`.
\* A payload without coinPoolLeftCount raises KeyError, which the outer
\* `except Exception` answers with sleep(3) (tapper.py:452-454).
GetGameData ==
    /\ pc = "game"
    /\ \E r \in Responses :
        IF ~Truthy(r)
        THEN /\ \E s \in CoarseSleeps :
                  LogPoll(<<Req("get_game_data", 0, r)>> \o CaughtSleep(r) \o <<Sleep(s)>>)
             /\ pc' = "start"
             /\ UNCHANGED <<available_energy, min_energy>>
        ELSE \E wellFormed \in BOOLEAN :
             IF wellFormed
             THEN /\ LogPoll(<<Req("get_game_data", 0, r)>>)
                  /\ \E total \in TotalEnergies :
                       /\ min_energy' = MinEnergyOf(total)
                       /\ available_energy' \in EnergiesOf(total)
                  /\ pc' = "boosts"
             ELSE /\ LogPoll(<<Req("get_game_data", 0, r)>> \o Caught("KeyError"))
                  /\ pc' = Handler("KeyError")
                  /\ UNCHANGED <<available_energy, min_energy>>
    /\ UNCHANGED <<pollFrame, balance, boosts_info, status, tap_data, upgraded>>
    /\ UNCHANGED elsewhere

\* a pending turbo tap performed whatever the energy
DecideTurboFirst(energy, minEnergy, turboCount, turbo) ==
    IF turbo THEN "turbo_box"
    ELSE IF energy > minEnergy
    THEN IF turboCount > 0 THEN "apply_turbo" ELSE "tap"
    ELSE IF energy = 0 THEN "level_up_tap"
    ELSE "start"

\* tapper.py:310-318 and 371: where the iteration goes once both snapshots
\* are there (turbo is active_turbo before the activation attempt)
Decide(energy, minEnergy, turboCount, turbo) ==
    IF energy > minEnergy
    THEN IF turboCount > 0 /\ ~turbo THEN "apply_turbo"
         ELSE IF turbo THEN "turbo_box"
         ELSE "tap"
    ELSE IF energy = 0 THEN "level_up_tap"
    ELSE "start"

\* tapper.py:295-310: get_boosts_info
GetBoostsInfo ==
    /\ pc = "boosts"
    /\ \E r \in Responses :
        IF ~Truthy(r)
        THEN /\ \E s \in CoarseSleeps :
                  Log(<<Req("get_boosts_info", 0, r)>> \o CaughtSleep(r) \o <<Sleep(s)>>)
             /\ pc' = "start"
             /\ UNCHANGED <<boosts_info, balance>>
        ELSE \E b \in BoostPayloads(available_energy) :
             /\ Log(<<Req("get_boosts_info", 0, r)>>)
             /\ boosts_info' = b
             /\ balance' = b.currentAmount
             /\ pc' = Decide(available_energy, min_energy,
                             b.specialBoxLeftRecoveryCount, active_turbo)
    /\ UNCHANGED <<pollFrame, available_energy, min_energy, status, tap_data, upgraded>>
    /\ UNCHANGED elsewhere

\* what send_taps / send_taps_with_turbo return (tapper.py:584-596, 611-623):
\* (False, {}) without a payload or after a caught error, else
\* (collectStatus, fields); amount says whether currentAmount is not null
TapResult(r, collectStatus, amount) ==
    [status |-> (r = "ok" /\ collectStatus),
     data   |-> IF r # "ok" THEN "empty"
                ELSE IF amount THEN "full" ELSE "noamount"]

\* tapper.py:326 `tap_data is None`
IsNone(data) == data = "none"

\* tapper.py:336-371: the next await after a tap that returned (st, data)
AfterTap(st, data) ==
    IF st THEN (IF data = "full" THEN "regame" ELSE "reprofile")
    ELSE IF available_energy = 0 THEN "level_up_tap"
    ELSE "start"

\* tapper.py:326-350: handling of the tap result up to the next await
HandleTap(events, res) ==
    /\ status' = res.status
    /\ tap_data' = res.data
    /\ IF IsNone(res.data)
       THEN /\ \E s \in CoarseSleeps : Log(events \o <<Sleep(s)>>)
            /\ pc' = "start"
            /\ balance' = balance
       ELSE /\ Log(events)
            /\ pc' = AfterTap(res.status, res.data)
            /\ balance' = IF res.status /\ res.data = "full" THEN Balance ELSE balance

\* the primitive of the other boost, POST game/recoverCoinPool
ActivationRecoverPool == "apply_energy_boost"

\* tapper.py:313: the primitive called to activate, POST game/recoverSpecialBox
Activation == "apply_turbo_boost"

\* apply_turbo_boost (tapper.py:553-563) and tapper.py:311-318
ApplyTurboBoost ==
    /\ pc = "apply_turbo"
    /\ \E r \in Responses :
        IF Truthy(r)
        THEN /\ Log(<<Req(Activation, 0, r), Sleep(TurboActivateDelay)>>)
             /\ active_turbo' = TRUE
             /\ pc' = "turbo_box"
        ELSE /\ Log(<<Req(Activation, 0, r)>> \o CaughtSleep(r))
             /\ active_turbo' = active_turbo
             /\ pc' = "tap"
    /\ UNCHANGED <<access_token, is_first_run, sweep, staleAtStart, balance, locals>>
    /\ UNCHANGED elsewhere

\* send_taps_with_turbo, first half (tapper.py:598-604): get_special_box_info,
\* then sleep(10).  Without recoveryBox the subscript raises: sleep(3) and
\* (False, {}).
TurboBox ==
    /\ pc = "turbo_box"
    /\ \E r \in Responses, hasBox \in BOOLEAN :
        IF Truthy(r) /\ hasBox
        THEN /\ Log(<<Req("get_special_box_info", 0, r), Sleep(TurboSettleDelay)>>)
             /\ pc' = "turbo_collect"
             /\ UNCHANGED <<status, tap_data, balance>>
        ELSE HandleTap(<<Req("get_special_box_info", 0, r)>> \o CaughtSleep(r)
                         \o <<Sleep(ErrorDelay)>>,
                       TapResult("null", FALSE, FALSE))
    /\ UNCHANGED <<pollFrame, available_energy, min_energy, boosts_info, upgraded>>
    /\ UNCHANGED elsewhere

\* the flag cleared whatever the turbo tap returned
TurboAfterAlways(turbo, st) == FALSE

\* tapper.py:320-321: the pending flag after a turbo tap that returned st
TurboAfter(turbo, st) == IF st THEN FALSE ELSE turbo

\* send_taps_with_turbo, second half (tapper.py:606-623) and tapper.py:319-321
TurboCollect ==
    /\ pc = "turbo_collect"
    /\ \E r \in Responses, collectStatus \in BOOLEAN, amount \in BOOLEAN :
        LET res == TapResult(r, collectStatus, amount) IN
        /\ HandleTap(<<Req("collectSpecialBoxCoin", 0, r)>> \o CaughtSleep(r), res)
        /\ active_turbo' = TurboAfter(active_turbo, res.status)
    /\ UNCHANGED <<access_token, is_first_run, sweep, staleAtStart,
                   available_energy, min_energy, boosts_info, upgraded>>
    /\ UNCHANGED elsewhere

\* tapper.py:323 max_taps
MaxTaps(energy, drawn) == Min(energy, drawn)

\* send_taps (tapper.py:577-596) and tapper.py:323-324
SendTaps ==
    /\ pc = "tap"
    /\ \E drawn \in Randint(RandomTapsCountMin, RandomTapsCountMax),
          r \in Responses, collectStatus \in BOOLEAN, amount \in BOOLEAN :
        HandleTap(<<Req("send_taps", MaxTaps(available_energy, drawn), r)>> \o CaughtSleep(r),
                  TapResult(r, collectStatus, amount))
    /\ UNCHANGED <<pollFrame, available_energy, min_energy, boosts_info, upgraded>>
    /\ UNCHANGED elsewhere

\* tapper.py:341-347: get_profile_data when the tap carried no balance
ReProfile ==
    /\ pc = "reprofile"
    /\ \E r \in Responses :
        /\ Log(<<Req("get_profile_data", 0, r)>> \o CaughtSleep(r))
        /\ IF Truthy(r)
           THEN /\ balance' = Balance
                /\ pc' = "regame"
                /\ UNCHANGED available_energy
           ELSE /\ available_energy' = 0
                /\ pc' = "start"
                /\ UNCHANGED balance
    /\ UNCHANGED <<pollFrame, min_energy, boosts_info, status, tap_data, upgraded>>
    /\ UNCHANGED elsewhere

\* randint(SLEEP_BETWEEN_TAP[0], SLEEP_BETWEEN_TAP[1])
TapSleeps == Randint(SleepBetweenTapMin, SleepBetweenTapMax)

\* tapper.py:352-369: get_game_data after a collected tap, then the tap sleep
ReGame ==
    /\ pc = "regame"
    /\ \E r \in Responses :
        IF ~Truthy(r)
        THEN /\ Log(<<Req("get_game_data", 0, r)>> \o CaughtSleep(r))
             /\ available_energy' = 0
             /\ pc' = "start"
        ELSE \E wellFormed \in BOOLEAN :
             IF wellFormed
             THEN /\ \E s \in TapSleeps : Log(<<Req("get_game_data", 0, r), Sleep(s)>>)
                  /\ \E total \in TotalEnergies : available_energy' \in EnergiesOf(total)
                  /\ pc' = "start"
             ELSE /\ Log(<<Req("get_game_data", 0, r)>> \o Caught("KeyError"))
                  /\ pc' = Handler("KeyError")
                  /\ UNCHANGED available_energy
    /\ UNCHANGED <<pollFrame, balance, min_energy, boosts_info, status, tap_data, upgraded>>
    /\ UNCHANGED elsewhere

----------------------------------------------------------------------------
(* Upgrades, tapper.py:371-437 *)

\* balance >= next price and next level <= configured maximum
CanUpgrade(res, maxLevel) == balance >= res.cost /\ res.level + 1 <= maxLevel

upgradeFrame == <<pollFrame, balance, available_energy, min_energy, boosts_info,
                  status, tap_data>>

\* tapper.py:381-392: level_up(boost_id=1)
LevelUpTap ==
    /\ pc = "level_up_tap"
    /\ IF CanUpgrade(boosts_info.tap, MAX_TAP_LEVEL)
       THEN \E r \in Responses :
              /\ Log(<<Req("level_up", TapBoostId, r)>> \o CaughtSleep(r))
              /\ upgraded' = Truthy(r)
       ELSE /\ UNCHANGED <<trace, tokenAge>>
            /\ upgraded' = FALSE
    /\ pc' = "level_up_energy"
    /\ UNCHANGED upgradeFrame
    /\ UNCHANGED elsewhere

\* tapper.py:394-403: level_up(boost_id=3)
LevelUpEnergy ==
    /\ pc = "level_up_energy"
    /\ IF CanUpgrade(boosts_info.energy, MAX_ENERGY_LEVEL)
       THEN \E r \in Responses :
              /\ Log(<<Req("level_up", EnergyBoostId, r)>> \o CaughtSleep(r))
              /\ upgraded' = (upgraded \/ Truthy(r))
       ELSE UNCHANGED <<trace, tokenAge, upgraded>>
    /\ pc' = "level_up_charge"
    /\ UNCHANGED upgradeFrame
    /\ UNCHANGED elsewhere

\* the wait taken whether or not an upgrade went through
AfterUpgradesAlwaysWait(events, up) ==
    \E s \in CoarseSleeps : Log(events \o <<Sleep(s)>>)

\* tapper.py:416-418 and 430-437: after the three attempts
AfterUpgrades(events, up) ==
    IF up
    THEN Log(events \o <<Sleep(UpgradeSettleDelay)>>)
    ELSE \E s \in CoarseSleeps : Log(events \o <<Sleep(s)>>)

\* tapper.py:405-437: level_up(boost_id=2), then the settle delay or the wait
LevelUpCharge ==
    /\ pc = "level_up_charge"
    /\ IF CanUpgrade(boosts_info.charge, MAX_CHARGE_LEVEL)
       THEN \E r \in Responses :
              /\ AfterUpgrades(<<Req("level_up", ChargeBoostId, r)>> \o CaughtSleep(r),
                               upgraded \/ Truthy(r))
              /\ upgraded' = (upgraded \/ Truthy(r))
       ELSE /\ AfterUpgrades(<<>>, upgraded)
            /\ UNCHANGED upgraded
    /\ pc' = "start"
    /\ UNCHANGED upgradeFrame
    /\ UNCHANGED elsewhere

----------------------------------------------------------------------------
Next ==
    \/ InitializeSession \/ StartDelay \/ ProxyGate \/ Propagate
    \/ Begin \/ GetTgWebData \/ Login
    \/ Referral \/ OfflineBonus \/ OfflineClaim \/ Signin \/ SigninClaim
    \/ SquadInfo \/ SquadRecommended \/ SquadJoin \/ SweepProfile
    \/ ActivityStatus \/ ActivityJoin
    \/ TaskList \/ TaskClick \/ TaskCheck \/ TaskClaim \/ TaskBonusInfo
    \/ MissionList \/ MissionClick \/ MissionCheck \/ MissionClaim
    \/ GetGameData \/ GetBoostsInfo
    \/ ApplyTurboBoost \/ TurboBox \/ TurboCollect \/ SendTaps
    \/ ReProfile \/ ReGame
    \/ LevelUpTap \/ LevelUpEnergy \/ LevelUpCharge

Spec == Init /\ [][Next]_vars

\* every call, and every sleep, of the one coroutine of the account returns:
\* the step that waits for it is taken
SpecLive == Init /\ [][Next]_vars /\ WF_vars(Next)

----------------------------------------------------------------------------
(* make_request (tapper.py:125-159), one activation, attempt by attempt *)

\* What one attempt meets:
\*   "status200"    HTTP 200 and a body that response.json() parses
\*   "undecodable"  HTTP 200 and a body on which response.json() raises
\*   "status429"    HTTP 429
\*   "status500"    another status
\*   "neterr"       the client raises before any status is received
Outcomes == {"status200", "undecodable", "status429", "status500", "neterr"}

\* a body that does not decode taken for an answer
RaisesBeforeStatus(o) == o = "neterr"

\* the attempt ends in the `except Exception` branch (tapper.py:152)
Raises(o) == o \in {"neterr", "undecodable"}

\* log entry of attempt number k (from 0) of the activation
Attempted(o, k) ==
    [op |-> o, arg |-> k, tok |-> TokenHeader(call.headers), ok |-> (o = "status200")]

\* the same delay after every failure
BackoffFlat(k) == base_delay

\* tapper.py:155  base_delay * (attempt + 1)
Backoff(k) == base_delay * (k + 1)

\* the last failure handed on to the caller
AfterExceptionRaise(k) == IF k < max_retries - 1 THEN "retry" ELSE "raise"

\* tapper.py:154-157: after an exception in attempt k
AfterException(k) == IF k < max_retries - 1 THEN "retry" ELSE "None"

\* the caller is suspended while make_request runs
caller == <<pc, access_token, is_first_run, active_turbo, balance, locals,
            sweep, staleAtStart, trace, run_log, referrals, runners, process,
            dicts, lastSent, transport, disk,
            round, items, walk>>

\* tapper.py:126-127 and the entry into the loop
MakeRequest ==
    /\ call.at = "idle"
    /\ \E client \in BOOLEAN, callerHeaders \in {NoHeaders, HEADERS} :
         call' = IF client
                 THEN [NoCall EXCEPT !.at = "attempt", !.headers = callerHeaders]
                 ELSE [NoCall EXCEPT !.at = "done", !.result = "InvalidSession",
                                     !.http_client = FALSE,
                                     !.headers = callerHeaders]
    /\ UNCHANGED <<tokenAge, caller>>

\* tapper.py:132-157: one pass of `for attempt in range(max_retries)`
Attempt ==
    /\ call.at = "attempt"
    /\ \E o \in Outcomes :
        LET sent == Append(call.log, Attempted(o, call.attempt)) IN
        IF Raises(o)
        THEN CASE AfterException(call.attempt) = "retry" ->
                    /\ call' = [call EXCEPT
                                  !.log = Append(sent, Sleep(Backoff(call.attempt))),
                                  !.attempt = call.attempt + 1]
                    /\ tokenAge' = Elapse(tokenAge, Backoff(call.attempt))
               [] AfterException(call.attempt) = "None" ->
                    /\ call' = [call EXCEPT !.log = sent, !.at = "done",
                                            !.result = "None"]
                    /\ UNCHANGED tokenAge
               [] OTHER ->
                    /\ call' = [call EXCEPT !.log = sent, !.at = "done",
                                            !.result = "raised"]
                    /\ UNCHANGED tokenAge
        ELSE /\ call' = [call EXCEPT !.log = sent, !.at = "done",
                                     !.result = IF o = "status200" THEN "body"
                                                ELSE "None"]
             /\ UNCHANGED tokenAge
    /\ UNCHANGED caller

\* the caller's side of an activation: the token held and its age
InitRequest ==
    /\ call = NoCall
    /\ access_token \in {"none", "tok"}
    /\ tokenAge \in {0, TokenTTL - base_delay, TokenTTL}
    /\ pc = "make_request"
    /\ is_first_run = FALSE
    /\ active_turbo = FALSE
    /\ balance = 0
    /\ available_energy = 0
    /\ min_energy = 0
    /\ boosts_info = NoBoosts
    /\ status = FALSE
    /\ tap_data = "empty"
    /\ upgraded = FALSE
    /\ todo = 0
    /\ attempt = 0
    /\ staleAtStart = FALSE
    /\ trace = <<>>
    /\ run_log = <<>>
    /\ referrals = 0
    /\ runners = <<>>
    /\ process = "running"
    /\ dicts = <<>>
    /\ lastSent = <<>>
    /\ transport = <<>>
    /\ disk = <<>>
    /\ round = 0
    /\ items = <<>>
    /\ walk = <<>>

NextRequest == MakeRequest \/ Attempt

SpecRequest == InitRequest /\ [][NextRequest]_vars

----------------------------------------------------------------------------
(* Several accounts in one process: one run_tapper task each                *)
(* (tapper.py:1152-1157).  A task is followed through the positions of      *)
(* run() and, inside process_bot_logic, through the top of the loop, the    *)
(* login and the poll; its iterations are counted up to MaxIterations.      *)
(* Per account: _access_token (token), and the locals of process_bot_logic  *)
(* access_token_created_time (stamp: the iteration of the last login, 0     *)
(* before the first), balance and active_turbo (turbo).  The dict objects   *)
(* are HEADERS of bot/core/headers.py and each account's _headers; of a     *)
(* dict only its `token` entry is followed ("none": no such key).           *)

Accounts == {"A", "B"}

oneAccount == <<pc, access_token, tokenAge, is_first_run, active_turbo, balance,
                locals, sweep, staleAtStart, trace, call, run_log, referrals,
                transport, disk, round, items, walk>>

At(a, where) == process = "running" /\ runners[a].at = where
Move(a, where) == runners' = [runners EXCEPT ![a].at = where]

\* the token the remote issues to account a
TokenOf(a) == a

\* BaseBot.__init__ (tapper.py:30-53): _headers is a copy of HEADERS; a
\* session record without `api` or `user_agent` ends in exit(-1), which ends
\* the interpreter
Construct(a) ==
    /\ At(a, "new")
    /\ dicts' = [dicts EXCEPT ![a] = dicts["HEADERS"]]
    /\ \E wellFormed \in BOOLEAN :
        IF wellFormed
        THEN Move(a, "initialize_session") /\ UNCHANGED process
        ELSE Move(a, "exit") /\ process' = "exited"
    /\ UNCHANGED <<oneAccount, lastSent>>

\* initialize_session and the start delay (tapper.py:161-167)
AccountInitialize(a) ==
    /\ At(a, "initialize_session")
    /\ \E ok \in BOOLEAN : Move(a, IF ok THEN "proxy_gate" ELSE "returned")
    /\ UNCHANGED <<oneAccount, process, dicts, lastSent>>

\* one pass of the loop of run() (tapper.py:177-192); process_bot_logic
\* starts with access_token_created_time = 0, active_turbo = False and
\* balance = 0 (tapper.py:195-197)
AccountGate(a) ==
    /\ At(a, "proxy_gate")
    /\ \E outcome \in {"proxy", "noproxy", "error"} :
        IF outcome = "error" THEN Move(a, RunHandler("Exception"))
        ELSE IF GateNext(outcome = "proxy") = "start"
        THEN runners' = [runners EXCEPT ![a].at = "logic", ![a].stamp = 0,
                                        ![a].balance = 0, ![a].turbo = FALSE]
        ELSE Move(a, "proxy_gate")
    /\ UNCHANGED <<oneAccount, process, dicts, lastSent>>

\* the dict a request is built in, one that writes into the caller's
\* headers when there are any
WorkingDictOfCaller(a, callerDict) ==
    IF callerDict = "nil" THEN "copy" ELSE callerDict

\* tapper.py:134: `headers = self._headers.copy()`, a dict of its own
WorkingDict(a, callerDict) == "copy"

\* make_request, tapper.py:134-141: the headers of a request of account a
\* whose caller passed the dict callerDict ("nil": none), and what is
\* written to the dicts on the way
SendRequest(a, callerDict) ==
    LET target == WorkingDict(a, callerDict)
        base == IF target = "copy" THEN dicts[a] ELSE dicts[target]
        tokened == IF runners[a].token # "none" THEN runners[a].token ELSE base
        merged == IF callerDict = "nil" \/ target = callerDict THEN tokened
                  ELSE IF dicts[callerDict] # "none" THEN dicts[callerDict]
                  ELSE tokened
    IN  /\ dicts' = IF target = "copy" THEN dicts
                    ELSE [dicts EXCEPT ![target] = merged]
        /\ lastSent' = [from |-> a, token |-> merged]

\* the top of the loop of process_bot_logic (tapper.py:199-201)
AccountIterate(a) ==
    /\ At(a, "logic")
    /\ \E expired \in BOOLEAN :
        runners' = [runners EXCEPT
                      ![a].iterations = Min(@ + 1, MaxIterations),
                      ![a].at = IterationStart(runners[a].stamp = 0 \/ expired)]
    /\ UNCHANGED <<oneAccount, process, dicts, lastSent>>

\* login (tapper.py:456-484), called with headers=HEADERS, and tapper.py:203-204
AccountLogin(a) ==
    /\ At(a, "auth")
    /\ SendRequest(a, "HEADERS")
    /\ \E r \in LoginResponses :
        IF LoginAccepted(r)
        THEN runners' = [runners EXCEPT ![a].token = TokenOf(a),
                                        ![a].stamp = runners[a].iterations,
                                        ![a].at = "game"]
        ELSE Move(a, RunHandler("InvalidSession"))
    /\ UNCHANGED <<oneAccount, process>>

\* the poll of one iteration (tapper.py:277-437): a request without caller
\* headers, and the locals it assigns; a KeyError ends the iteration
\* (tapper.py:452-454)
AccountPoll(a) ==
    /\ At(a, "game")
    /\ SendRequest(a, "nil")
    /\ \E exc \in {"none", "KeyError"}, b \in {0, Balance}, turbo \in BOOLEAN :
        IF exc = "none"
        THEN runners' = [runners EXCEPT ![a].balance = b, ![a].turbo = turbo,
                                        ![a].at = "logic"]
        ELSE Move(a, IF Handler(exc) = "fatal" THEN RunHandler(exc) ELSE "logic")
    /\ UNCHANGED <<oneAccount, process>>

InitAccounts ==
    /\ runners = [a \in Accounts |->
                    [at |-> "new", iterations |-> 0, token |-> "none",
                     stamp |-> 0, balance |-> 0, turbo |-> FALSE]]
    /\ process = "running"
    /\ dicts = [d \in {"HEADERS"} \cup Accounts |-> "none"]
    /\ lastSent = [from |-> "nobody", token |-> "none"]
    /\ transport = <<>>
    /\ disk = <<>>
    /\ round = 0
    /\ items = <<>>
    /\ walk = <<>>
    /\ call = NoCall
    /\ access_token = "none"
    /\ tokenAge = TokenTTL
    /\ pc = "run_tapper"
    /\ is_first_run = FALSE
    /\ active_turbo = FALSE
    /\ balance = 0
    /\ available_energy = 0
    /\ min_energy = 0
    /\ boosts_info = NoBoosts
    /\ status = FALSE
    /\ tap_data = "empty"
    /\ upgraded = FALSE
    /\ todo = 0
    /\ attempt = 0
    /\ staleAtStart = FALSE
    /\ trace = <<>>
    /\ run_log = <<>>
    /\ referrals = 0

NextAccounts ==
    \E a \in Accounts :
        \/ Construct(a)
        \/ AccountInitialize(a)
        \/ AccountGate(a)
        \/ AccountIterate(a)
        \/ AccountLogin(a)
        \/ AccountPoll(a)

SpecAccounts == InitAccounts /\ [][NextAccounts]_vars

----------------------------------------------------------------------------
(* Two sweeps in succession, against a remote that changes only when a     *)
(* claim succeeds.  The sweep is the one of the loop (tapper.py:229-275);  *)
(* between the two sweeps the token expires and the account logs in again. *)

\* the log of an iteration after get_tg_web_data and login (tapper.py:203-205)
Authenticated(tok) ==
    <<Ext("get_tg_web_data", TRUE),
      [op |-> "login", arg |-> 0, tok |-> tok, ok |-> TRUE]>>

\* an item of the remote no claim call was made for
Unclaimed(st) == [status |-> st, claims |-> 0]

\* the sweep is over (or was cut short by the profile fetch); the next
\* iteration that finds the token expired logs in and runs the sweep again
SweepAgain ==
    /\ pc \in {"game", "start"}
    /\ round = 1
    /\ round' = 2
    /\ pc' = "offline"
    /\ tokenAge' = 0
    /\ trace' = Authenticated("stale")
    /\ staleAtStart' = TRUE
    /\ todo' = 0
    /\ attempt' = 0
    /\ walk' = <<>>
    /\ UNCHANGED <<session, balance, locals, items>>
    /\ UNCHANGED <<call, run_log, referrals, runners, process, dicts, lastSent,
                   transport, disk>>

InitSweep ==
    /\ round = 1
    /\ \E kind \in Kinds :
        items \in [{kind} -> [Ids -> {Unclaimed(Pending), Unclaimed(Done)}]]
    /\ walk = <<>>
    /\ pc = "offline"
    /\ access_token = "tok"
    /\ tokenAge = 0
    /\ is_first_run = FALSE
    /\ active_turbo = FALSE
    /\ balance = 0
    /\ available_energy = 0
    /\ min_energy = 0
    /\ boosts_info = NoBoosts
    /\ status = FALSE
    /\ tap_data = "empty"
    /\ upgraded = FALSE
    /\ todo = 0
    /\ attempt = 0
    /\ staleAtStart = TRUE
    /\ trace = Authenticated("none")
    /\ call = NoCall
    /\ run_log = <<Ext("check_and_update_proxy", TRUE)>>
    /\ referrals = 0
    /\ runners = <<>>
    /\ process = "running"
    /\ dicts = <<>>
    /\ lastSent = <<>>
    /\ transport = <<>>
    /\ disk = <<>>

NextSweep ==
    \/ OfflineBonus \/ OfflineClaim \/ Signin \/ SigninClaim
    \/ SquadInfo \/ SquadRecommended \/ SquadJoin \/ SweepProfile
    \/ ActivityStatus \/ ActivityJoin
    \/ TaskList \/ TaskClick \/ TaskCheck \/ TaskClaim \/ TaskBonusInfo
    \/ MissionList \/ MissionClick \/ MissionCheck \/ MissionClaim
    \/ SweepAgain

SpecSweep == InitSweep /\ [][NextSweep]_vars

----------------------------------------------------------------------------
(* The transport of an account: self._current_proxy and self._http_client
   through run and check_and_update_proxy (tapper.py:90-111, 161-192).
   check_proxy and get_working_proxy live in bot/utils/proxy_utils, outside
   the sources at hand: they are taken at their contract, checkProxy(ref)
   -> healthy, getWorkingProxy(pool, previous) -> ref or none.  A client is
   known by the order in which it was made; ProxyConnector.from_url and the
   client's close are taken to return. *)

Proxies == {"p1", "p2"}
NoProxy == "none"
NoClient == 0
CheckProxyResults == BOOLEAN
WorkingProxies == Proxies \cup {NoProxy}

allButTransport == <<pc, access_token, tokenAge, is_first_run, active_turbo, balance,
                     locals, sweep, staleAtStart, trace, call, run_log, referrals,
                     runners, process, dicts, lastSent, disk, round, items, walk>>

\* tapper.py:169-175: the first client, bound to the proxy of the session
\* config if there is one
RunEnter ==
    /\ transport.at = "run"
    /\ transport' = [transport EXCEPT
            !.clients = <<[proxy |-> transport.current_proxy, closed |-> FALSE]>>,
            !.http_client = 1,
            !.at = "proxy_gate"]
    /\ UNCHANGED allButTransport

\* the new proxy recorded with the client left as it is
ReplacedProxyOnly(tr, new) == [tr EXCEPT !.current_proxy = new]

\* tapper.py:99-109: record the new proxy, close the client if it is open,
\* make a client bound to the new proxy
Replaced(tr, new) ==
    [tr EXCEPT
        !.current_proxy = new,
        !.clients = Append([@ EXCEPT ![tr.http_client].closed = TRUE],
                           [proxy |-> new, closed |-> FALSE]),
        !.http_client = Len(tr.clients) + 1]

\* check_and_update_proxy (tapper.py:90-111) and what run does with its
\* result (tapper.py:180-183): without a working proxy it sleeps 300 s and
\* comes back to the gate, as it does after a sleep when check_proxy or
\* get_working_proxy raised (tapper.py:188-191)
UpdateProxy ==
    /\ transport.at = "proxy_gate"
    /\ \E healthy \in CheckProxyResults, new \in WorkingProxies, raised \in BOOLEAN :
        LET unhealthy == transport.current_proxy = NoProxy \/ ~healthy IN
        /\ (transport.use_proxy /\ ~raised /\ unhealthy /\ new # NoProxy)
              => Len(transport.clients) < MaxClients
        /\ transport' =
              IF ~transport.use_proxy
              THEN [transport EXCEPT !.at = "logic", !.checked = "off",
                                     !.used = NoClient]
              ELSE IF raised
              THEN [transport EXCEPT !.checked = "raised"]
              ELSE IF ~unhealthy
              THEN [transport EXCEPT !.at = "logic", !.checked = "healthy",
                                     !.used = NoClient]
              ELSE IF new = NoProxy
              THEN [transport EXCEPT !.checked = "none found"]
              ELSE [Replaced(transport, new) EXCEPT
                        !.at = "logic", !.checked = "replaced", !.used = NoClient]
    /\ UNCHANGED allButTransport

\* make_request (tapper.py:126-143): the request goes through the client
\* installed at that moment
ClientRequest ==
    /\ transport.at = "logic"
    /\ transport.http_client # NoClient
    /\ transport' = [transport EXCEPT !.used = transport.http_client]
    /\ UNCHANGED allButTransport

\* tapper.py:188-191: process_bot_logic raised an error that is not fatal;
\* run sleeps and goes back to the gate
LogicRaises ==
    /\ transport.at = "logic"
    /\ transport' = [transport EXCEPT !.at = "proxy_gate"]
    /\ UNCHANGED allButTransport

\* tapper.py:186-187: InvalidSession leaves run, and the `async with` of
\* tapper.py:170 closes the client it had made
LogicFatal ==
    /\ transport.at = "logic"
    /\ transport' = [transport EXCEPT !.at = "stopped", !.clients[1].closed = TRUE]
    /\ UNCHANGED allButTransport

\* __init__ (tapper.py:36-37, 50-53): no client, the proxy of the session
\* config if it has one; settings.USE_PROXY either way
InitProxy ==
    /\ \E use \in BOOLEAN, configured \in Proxies \cup {NoProxy} :
        transport = [at |-> "run", use_proxy |-> use, current_proxy |-> configured,
                     http_client |-> NoClient, clients |-> <<>>, used |-> NoClient,
                     checked |-> "never"]
    /\ disk = <<>>
    /\ pc = "proxy_gate"
    /\ access_token = "none"
    /\ tokenAge = TokenTTL
    /\ is_first_run = FALSE
    /\ active_turbo = FALSE
    /\ balance = 0
    /\ available_energy = 0
    /\ min_energy = 0
    /\ boosts_info = NoBoosts
    /\ status = FALSE
    /\ tap_data = "empty"
    /\ upgraded = FALSE
    /\ todo = 0
    /\ attempt = 0
    /\ staleAtStart = FALSE
    /\ trace = <<>>
    /\ call = NoCall
    /\ run_log = <<>>
    /\ referrals = 0
    /\ runners = <<>>
    /\ process = "running"
    /\ dicts = <<>>
    /\ lastSent = <<>>
    /\ round = 0
    /\ items = <<>>
    /\ walk = <<>>

NextProxy == RunEnter \/ UpdateProxy \/ ClientRequest \/ LogicRaises \/ LogicFatal

SpecProxy == InitProxy /\ [][NextProxy]_vars

----------------------------------------------------------------------------
(* The poll iterations of an account whose energy-boost activations are
   followed: the remote holds some number of them, every boost state fetched
   reports it, and nothing in the loop spends one. *)

InitPoll ==
    /\ items \in [{"energy_boost"} -> 0..MaxEnergyBoosts]
    /\ active_turbo \in BOOLEAN
    /\ pc = "game"
    /\ access_token = "tok"
    /\ tokenAge = 0
    /\ is_first_run = FALSE
    /\ balance = 0
    /\ available_energy = 0
    /\ min_energy = 0
    /\ boosts_info = NoBoosts
    /\ status = FALSE
    /\ tap_data = "empty"
    /\ upgraded = FALSE
    /\ todo = 0
    /\ attempt = 0
    /\ staleAtStart = FALSE
    /\ trace = <<>>
    /\ call = NoCall
    /\ run_log = <<Ext("check_and_update_proxy", TRUE)>>
    /\ referrals = 0
    /\ runners = <<>>
    /\ process = "running"
    /\ dicts = <<>>
    /\ lastSent = <<>>
    /\ transport = <<>>
    /\ disk = <<>>
    /\ round = 0
    /\ walk = <<>>

\* the iterations of the loop while the token is valid
PollAgain == ~TokenExpired /\ Begin

NextPoll ==
    \/ PollAgain
    \/ GetGameData \/ GetBoostsInfo
    \/ ApplyTurboBoost \/ TurboBox \/ TurboCollect \/ SendTaps
    \/ ReProfile \/ ReGame
    \/ LevelUpTap \/ LevelUpEnergy \/ LevelUpCharge

SpecPoll == InitPoll /\ [][NextPoll]_vars

----------------------------------------------------------------------------
(* create_and_save_wallet and update_accounts_config_wallet
   (bot/utils/wallet_utils.py).  The functions are synchronous: a call is one
   step.  generate_wallet lives in bot/utils/ton, outside the sources at
   hand: it is taken to write the temp file and return the address of the
   wallet, or to raise, before or after the file is there.  An address is
   the sequence of its parts between colons. *)

Sessions == {"s1", "s2"}
\* wallet_config[s] is the set of the entries of session s: none or one
Absent == {}
\* an account without the key ton_address
NoAddress == <<>>
AddressForms == {"plain", "prefixed", "double"}
GenerateOutcomes == {"raised", "raised_written", "unreadable", "wallet"}

\* the address of wallet number n, or the ton_address an account had (n = 0)
Address(form, n) ==
    CASE form = "plain" -> <<n>>
      [] form = "prefixed" -> <<0, n>>
      [] OTHER -> <<0, n, n>>

\* wallet_utils.py:64-68: the part after the colon, if there is a colon
RawAddress(address) == IF Len(address) > 1 THEN address[2] ELSE address[1]

\* the entry of wallet_config.json for a wallet (wallet_utils.py:61-70)
Entry(address) == [wallet_address |-> address, raw_address |-> RawAddress(address)]

\* update_accounts_config_wallet (wallet_utils.py:33-45)
UpdateAccounts(d, s, address) ==
    IF d.accounts_file /\ d.accounts[s].present
                       /\ d.accounts[s].ton_address = NoAddress
    THEN [d EXCEPT !.accounts[s].ton_address = address]
    ELSE d

\* the temp file removed only where the function removes nothing
TempAfterKept(temp, s, wrote) == IF wrote THEN temp \cup {s} ELSE temp

\* wallet_utils.py:82-84: the `finally` of the generation
TempAfter(temp, s, wrote) == temp \ {s}

allButDisk == <<pc, access_token, tokenAge, is_first_run, active_turbo, balance,
                locals, sweep, staleAtStart, trace, call, run_log, referrals,
                runners, process, dicts, lastSent, transport, round, items, walk>>

\* create_and_save_wallet (wallet_utils.py:48-84) for session s
CreateAndSaveWallet(s) ==
    /\ IF disk.wallet_config[s] # Absent
       THEN LET entry == CHOOSE e \in disk.wallet_config[s] : TRUE IN
            disk' = [UpdateAccounts(disk, s, entry.wallet_address)
                        EXCEPT !.last = [session |-> s, path |-> "existing",
                                         result |-> {entry}]]
       ELSE /\ disk.generated < MaxWallets
            /\ \E o \in GenerateOutcomes, form \in AddressForms :
                LET n == disk.generated + 1
                    address == Address(form, n)
                    wrote == o # "raised"
                    \* `_, address = wallet_address.split(':')` raises on a
                    \* second colon
                    ok == o = "wallet" /\ form # "double"
                    saved == [disk EXCEPT !.wallet_config[s] = {Entry(address)}]
                IN  disk' = [(IF ok THEN UpdateAccounts(saved, s, address) ELSE disk)
                                EXCEPT !.generated = n,
                                       !.temp = TempAfter(disk.temp, s, wrote),
                                       !.last = [session |-> s,
                                                 path |-> IF ok THEN "generated"
                                                          ELSE "raised",
                                                 result |-> IF ok THEN {Entry(address)}
                                                            ELSE Absent]]
    /\ UNCHANGED allButDisk

\* the files as a start of the program finds them: a wallet config with or
\* without an entry from an earlier run, an accounts config, if any, where
\* the session may be missing, have no ton_address, or have one
InitWallet ==
    /\ \E config \in [Sessions -> {Absent, {Entry(Address("prefixed", 0))}}],
          file \in BOOLEAN,
          accounts \in [Sessions -> [present : {TRUE},
                                     ton_address : {NoAddress, Address("plain", 0)}]
                                    \cup {[present |-> FALSE,
                                           ton_address |-> NoAddress]}] :
        disk = [wallet_config |-> config, accounts_file |-> file,
                accounts |-> accounts, temp |-> {}, generated |-> 0,
                last |-> [session |-> "none", path |-> "none", result |-> Absent]]
    /\ transport = <<>>
    /\ pc = "wallet"
    /\ access_token = "none"
    /\ tokenAge = TokenTTL
    /\ is_first_run = FALSE
    /\ active_turbo = FALSE
    /\ balance = 0
    /\ available_energy = 0
    /\ min_energy = 0
    /\ boosts_info = NoBoosts
    /\ status = FALSE
    /\ tap_data = "empty"
    /\ upgraded = FALSE
    /\ todo = 0
    /\ attempt = 0
    /\ staleAtStart = FALSE
    /\ trace = <<>>
    /\ call = NoCall
    /\ run_log = <<>>
    /\ referrals = 0
    /\ runners = <<>>
    /\ process = "running"
    /\ dicts = <<>>
    /\ lastSent = <<>>
    /\ round = 0
    /\ items = <<>>
    /\ walk = <<>>

NextWallet == \E s \in Sessions : CreateAndSaveWallet(s)

SpecWallet == InitWallet /\ [][NextWallet]_vars

----------------------------------------------------------------------------
(* Reading the log *)

Idx == 1..Len(trace)
IsRequest(e) == e.tok \in {"none", "fresh", "stale", "caller"}
IsSleep(e) == e.op = "sleep"
IsCoarseSleep(e) ==
    e.op = "sleep" /\ e.arg >= SleepByMinEnergyMin /\ e.arg <= SleepByMinEnergyMax
HasCoarseSleep == \E i \in Idx : IsCoarseSleep(trace[i])
Count(op) == Cardinality({i \in Idx : trace[i].op = op})
Called(op) == \E i \in Idx : trace[i].op = op

\* the requests of a tap: send_taps, and the two of send_taps_with_turbo
TapOps == {"send_taps", "get_special_box_info", "collectSpecialBoxCoin"}
TapIssued == \E i \in Idx : trace[i].op \in TapOps
LastTap == CHOOSE i \in Idx :
              /\ trace[i].op \in TapOps
              /\ \A j \in Idx : trace[j].op \in TapOps => j <= i

----------------------------------------------------------------------------
(* C1 *)

\* C1: an iteration that starts with a token of age >= 3600 s (the first
\* iteration included) calls get_tg_web_data and then login before anything
\* else; an iteration that starts with a younger token calls neither.
C1_AuthBeforeAnythingElse ==
    /\ (staleAtStart /\ trace # <<>>) => trace[1].op = "get_tg_web_data"
    /\ (staleAtStart /\ Len(trace) >= 2) => trace[2].op = "login"
    /\ \A i \in Idx : trace[i].op = "login" => (staleAtStart /\ i = 2)
    /\ \A i \in Idx : trace[i].op = "get_tg_web_data" => (staleAtStart /\ i = 1)
    /\ (access_token = "none" /\ trace # <<>>) => trace[1].op = "get_tg_web_data"

\* a second re-authentication: the login is sent while an older token is
\* held, and the iteration goes on after it
C1_Witness ==
    /\ staleAtStart
    /\ Len(trace) >= 3
    /\ trace[1].op = "get_tg_web_data"
    /\ trace[2].op = "login"
    /\ trace[2].tok = "stale"
    /\ Called("get_game_data")

----------------------------------------------------------------------------
(* C2 *)

\* C2: no request is sent with an access token of age >= 3600 s in its
\* `token` header, the login request included.
C2_NoStaleTokenSent == \A i \in Idx : trace[i].tok # "stale"

----------------------------------------------------------------------------
(* C3 *)

\* both snapshots of the poll were fetched in the logged iteration
BoostsFetched == \E i \in Idx : trace[i].op = "get_boosts_info" /\ trace[i].ok

\* C3: an iteration that fetched game and boost state with
\* 0 < available energy <= min energy issues no tap and sleeps a delay drawn
\* from SLEEP_BY_MIN_ENERGY before the next poll.
C3_LowEnergyWaits ==
    /\ pc \in {"apply_turbo", "turbo_box", "turbo_collect", "tap"}
          => available_energy > min_energy
    /\ (/\ pc = "start"
        /\ BoostsFetched
        /\ ~TapIssued
        /\ 0 < available_energy
        /\ available_energy <= min_energy)
          => HasCoarseSleep

----------------------------------------------------------------------------
(* C4 *)

\* C4: after a tap (regular or turbo) that came back without a payload the
\* iteration sleeps a delay drawn from SLEEP_BY_MIN_ENERGY and sends no
\* further request.
C4_EmptyTapBacksOff ==
    (pc = "start" /\ TapIssued /\ tap_data = "empty")
        => /\ \E j \in Idx : j > LastTap /\ IsCoarseSleep(trace[j])
           /\ \A j \in Idx : j > LastTap => ~IsRequest(trace[j])

----------------------------------------------------------------------------
(* C5 *)

\* C5: after a tap whose payload says collectStatus = false the iteration
\* calls get_profile_data exactly once and does not sleep a delay drawn from
\* SLEEP_BY_MIN_ENERGY.
C5_RejectedTapResyncs ==
    (pc = "start" /\ TapIssued /\ tap_data # "empty" /\ ~status)
        => /\ Count("get_profile_data") = 1
           /\ ~HasCoarseSleep

----------------------------------------------------------------------------
(* C6 *)

\* C6: a turbo tap that fails leaves the turbo flag set; while the flag is
\* set no apply_turbo_boost call is made and a poll that goes on to tap goes
\* on to send_taps_with_turbo; the flag is cleared by a turbo tap with
\* collectStatus true, and by nothing else.
C6_TurboFlagDiscipline ==
    [][/\ pc \in {"turbo_box", "turbo_collect"} => active_turbo
       /\ (pc \in {"turbo_box", "turbo_collect"} /\ pc' # "turbo_collect" /\ ~status')
             => active_turbo'
       /\ pc' = "apply_turbo" => ~active_turbo'
       /\ (pc = "boosts" /\ active_turbo /\ pc' \in {"apply_turbo", "turbo_box", "tap"})
             => pc' = "turbo_box"
       /\ (pc = "turbo_collect" /\ status') => ~active_turbo'
       /\ (active_turbo /\ ~active_turbo') => (pc = "turbo_collect" /\ status')
      ]_vars

\* an iteration that found the flag set by an earlier one and went to the
\* turbo tap without a new activation
C6_Witness ==
    /\ pc = "start"
    /\ active_turbo
    /\ Called("get_special_box_info")
    /\ ~Called("apply_turbo_boost")
    /\ ~status

----------------------------------------------------------------------------
(* C7 *)

\* the boost ids of the level_up calls of the logged iteration, in order
LevelUps ==
    LET calls == SelectSeq(trace, LAMBDA e : e.op = "level_up")
    IN  [i \in 1..Len(calls) |-> calls[i].arg]

\* position of a boost id in the order tap (1), energy (3), charge (2)
Rank(id) == CASE id = 1 -> 1 [] id = 3 -> 2 [] id = 2 -> 3 [] OTHER -> 0

\* the upgrade pass of the logged iteration has run to its end
UpgradePassDone ==
    pc = "start" /\ BoostsFetched /\ ~TapIssued /\ available_energy = 0

Affordable(res) == balance >= res.cost /\ res.level < 10

\* C7: the level_up calls of an iteration follow the order boost_id 1, 3, 2
\* with no resource attempted twice, and a pass in which all three upgrades
\* are affordable and below their maximum level issues exactly 1, 3, 2.
C7_UpgradeOrder ==
    /\ \A i, j \in 1..Len(LevelUps) :
          i < j => (Rank(LevelUps[i]) > 0 /\ Rank(LevelUps[i]) < Rank(LevelUps[j]))
    /\ (/\ UpgradePassDone
        /\ Affordable(boosts_info.tap)
        /\ Affordable(boosts_info.energy)
        /\ Affordable(boosts_info.charge))
          => LevelUps = <<1, 3, 2>>

C7_Witness ==
    /\ UpgradePassDone
    /\ Affordable(boosts_info.tap)
    /\ Affordable(boosts_info.energy)
    /\ Affordable(boosts_info.charge)
    /\ LevelUps = <<1, 3, 2>>

----------------------------------------------------------------------------
(* C8 *)

LevelUpSucceeded == \E i \in Idx : trace[i].op = "level_up" /\ trace[i].ok

\* C8: an iteration with available energy 0 sleeps a delay drawn from
\* SLEEP_BY_MIN_ENERGY if and only if none of its level_up calls succeeded;
\* when only the tap upgrade is affordable it makes the one call level_up(1).
C8_WaitIffNoUpgrade ==
    UpgradePassDone =>
        /\ HasCoarseSleep <=> ~LevelUpSucceeded
        /\ (/\ Affordable(boosts_info.tap)
            /\ ~Affordable(boosts_info.energy)
            /\ ~Affordable(boosts_info.charge))
              => LevelUps = <<1>>

C8_Witness ==
    /\ UpgradePassDone
    /\ Affordable(boosts_info.tap)
    /\ ~Affordable(boosts_info.energy)
    /\ ~Affordable(boosts_info.charge)
    /\ LevelUps = <<1>>
    /\ LevelUpSucceeded
    /\ ~HasCoarseSleep

----------------------------------------------------------------------------
(* C9 *)

\* entry i is a fetch of the poll (not the re-fetch that follows a tap)
\* that came back without a payload
FailedPollFetch(i) ==
    /\ trace[i].op \in {"get_game_data", "get_boosts_info"}
    /\ ~trace[i].ok
    /\ \A j \in 1..i : trace[j].op \notin TapOps

\* C9: when get_game_data or get_boosts_info of the poll returns no payload,
\* the iteration makes no further call and ends after a sleep within
\* [SLEEP_BY_MIN_ENERGY[0], SLEEP_BY_MIN_ENERGY[1]].
C9_FailedFetchWaits ==
    \A i \in Idx : FailedPollFetch(i) =>
        /\ pc = "start"
        /\ \A j \in Idx : j > i => IsSleep(trace[j])
        /\ \E j \in Idx : j > i /\ IsCoarseSleep(trace[j])

C9_Witness ==
    /\ \E i \in Idx : FailedPollFetch(i) /\ trace[i].op = "get_boosts_info"
    /\ Called("get_game_data")
    /\ HasCoarseSleep

----------------------------------------------------------------------------
(* C10 *)

\* C10: a poll with available energy > min energy and no turbo makes one
\* send_taps call with count = min(available energy, r), 35 <= r <= 100, and
\* a tap that succeeded is followed by a sleep of 3..8 s before the next
\* iteration.
C10_RegularTap ==
    /\ Count("send_taps") <= 1
    /\ (pc \in {"regame", "reprofile"} /\ Called("send_taps"))
          => \E i \in Idx, r \in 35..100 :
                /\ trace[i].op = "send_taps"
                /\ trace[i].arg = (IF available_energy < r THEN available_energy ELSE r)
                /\ 1 <= trace[i].arg
                /\ trace[i].arg <= available_energy
    /\ (pc = "start" /\ Called("send_taps") /\ status)
          => \E j \in Idx : /\ j > LastTap
                            /\ IsSleep(trace[j])
                            /\ trace[j].arg >= 3
                            /\ trace[j].arg <= 8

----------------------------------------------------------------------------
(* C12 *)

AttemptIdx == {i \in 1..Len(call.log) : call.log[i].op \in Outcomes}
CallDone == call.at = "done" /\ call.http_client

\* C12: make_request makes at most 3 attempts; a network failure in attempt
\* k (k = 1, 2) is followed by a sleep of 5*k s and then attempt k+1; a
\* network failure in attempt 3 ends the call with null, no sleep, no raise.
C12_ThreeAttemptsLinearBackoff ==
    /\ Cardinality(AttemptIdx) <= 3
    /\ \A i \in AttemptIdx :
          call.log[i].op = "neterr" =>
             LET k == call.log[i].arg + 1 IN
             IF k < 3
             THEN /\ Len(call.log) > i
                  /\ call.log[i + 1].op = "sleep"
                  /\ call.log[i + 1].arg = 5 * k
                  /\ call.at = "attempt"
                        \/ (/\ Len(call.log) > i + 1
                            /\ call.log[i + 2].op \in Outcomes
                            /\ call.log[i + 2].arg = k)
             ELSE /\ i = Len(call.log)
                  /\ call.at = "done"
                  /\ call.result = "None"

C12_Witness ==
    /\ CallDone
    /\ Len(call.log) = 5
    /\ \A i \in AttemptIdx : call.log[i].op = "neterr"
    /\ call.result = "None"

----------------------------------------------------------------------------
(* C13 *)

\* C13: an attempt that receives an HTTP status ends the call, with no
\* further attempt and no sleep: the body for 200, null for 429 and for any
\* other status.
C13_StatusEndsCall ==
    \A i \in AttemptIdx :
        call.log[i].op \in {"status200", "undecodable", "status429", "status500"} =>
            /\ i = Len(call.log)
            /\ call.at = "done"
            /\ call.result = IF call.log[i].op \in {"status200", "undecodable"}
                             THEN "body" ELSE "None"

----------------------------------------------------------------------------
(* C14 *)

\* C14: make_request raises only when the HTTP client is not initialized
\* (InvalidSession); every other activation ends with a value, the body or
\* null.
C14_RaisesOnlyWithoutClient ==
    call.at = "done" =>
        /\ call.result = "InvalidSession" <=> ~call.http_client
        /\ call.http_client => call.result \in {"body", "None"}

C14_Witness ==
    /\ CallDone
    /\ \E i \in AttemptIdx : call.log[i].op = "undecodable" /\ i = Len(call.log)
    /\ call.result = "None"

----------------------------------------------------------------------------
(* C15 *)

\* C15: a login whose answer is missing, has a non-zero code or lacks
\* data.token ends the coroutine with InvalidSession, the token held and
\* its issuance time unchanged; only an answer with code 0 and data.token
\* stores the new token, and only then is the issuance time recorded.
C15_LoginFailsFatally ==
    [][pc = "login" =>
         IF trace'[Len(trace)+1].ok
         THEN /\ access_token' = "tok"
              /\ tokenAge' = 0
              /\ pc' \in {"referral", "offline"}
         ELSE /\ pc' = "fatal"
              /\ access_token' = access_token
              /\ tokenAge' = TokenTTL
      ]_vars

C15_Witness ==
    /\ pc = "fatal"
    /\ Len(trace) >= 2
    /\ trace[2].op = "login"
    /\ ~trace[2].ok
    /\ access_token = "tok"

----------------------------------------------------------------------------
(* C16 *)

\* the positions inside the loop of process_bot_logic
LoopPositions ==
    {"start", "auth", "login", "referral", "offline", "offline_claim", "signin",
     "signin_claim", "squad", "squad_rec", "squad_join", "profile", "activity",
     "activity_join", "task_list", "task_click", "task_check", "task_claim",
     "task_bonus", "mission_list", "mission_click", "mission_check",
     "mission_claim", "game", "boosts", "apply_turbo", "turbo_box",
     "turbo_collect", "tap", "reprofile", "regame", "level_up_tap",
     "level_up_energy", "level_up_charge"}

\* the positions of run() before process_bot_logic is entered, and after
\* its own `return`
RunPositions == {"initialize_session", "start_delay", "proxy_gate", "returned"}

\* the last call of the logged iteration
LastCall == CHOOSE i \in Idx :
               /\ trace[i].op \notin {"sleep", "raise"}
               /\ \A j \in Idx : trace[j].op \notin {"sleep", "raise"} => j <= i

\* C16: an exception raised in an iteration that is not InvalidSession is
\* followed by a sleep of 3 s and the next iteration; process_bot_logic is
\* left only by InvalidSession (raised by get_tg_web_data or login), never
\* by a return or another exception.
C16_OnlyInvalidSessionLeaves ==
    /\ \A i \in Idx :
          (trace[i].op = "raise" /\ trace[i].tok # "InvalidSession") =>
              /\ Len(trace) = i + 1
              /\ trace[i + 1].op = "sleep"
              /\ trace[i + 1].arg = 3
              /\ pc = "start"
    /\ pc \in LoopPositions \cup RunPositions \cup {"fatal", "abandoned"}
    /\ pc \in RunPositions => trace = <<>>
    /\ pc \in {"fatal", "abandoned"} =>
          /\ trace # <<>>
          /\ trace[LastCall].op \in {"get_tg_web_data", "login"}
          /\ ~trace[LastCall].ok

C16_Witness ==
    /\ pc = "start"
    /\ Len(trace) >= 3
    /\ trace[Len(trace) - 1].op = "raise"
    /\ trace[Len(trace) - 1].tok = "KeyError"
    /\ TapIssued

----------------------------------------------------------------------------
(* C17 *)

\* C17: InvalidSession raised inside process_bot_logic goes through run()
\* with no retry sleep and no new pass through the proxy gate, and the
\* runner of the account sends nothing after it.
C17_FatalStopsRunner ==
    [][/\ pc = "fatal" =>
             /\ pc' = "abandoned"
             /\ trace' = trace
             /\ \A i \in 1..Len(run_log') :
                   run_log'[i].op \notin {"sleep", "check_and_update_proxy"}
       /\ pc = "abandoned" => (pc' = "abandoned" /\ trace' = trace)
      ]_vars

C17_Witness ==
    /\ pc = "abandoned"
    /\ run_log = <<Raise("InvalidSession")>>
    /\ trace # <<>>
    /\ trace[LastCall].op = "login"
    /\ access_token = "tok"

----------------------------------------------------------------------------
(* C18 *)

GateFailed == \E i \in 1..Len(run_log) :
                 run_log[i].op = "check_and_update_proxy" /\ ~run_log[i].ok

\* C18: when check_and_update_proxy reports no healthy proxy, run() sleeps
\* 300 s and goes back to the gate; process_bot_logic is entered, and a
\* request sent, only after a pass in which the gate succeeded.
C18_GateBeforeLogic ==
    /\ GateFailed =>
          /\ pc = "proxy_gate"
          /\ run_log = <<Ext("check_and_update_proxy", FALSE), Sleep(300)>>
    /\ pc \in LoopPositions => run_log = <<Ext("check_and_update_proxy", TRUE)>>
    /\ trace # <<>> => pc \notin RunPositions

C18_Witness ==
    /\ GateFailed
    /\ pc = "proxy_gate"
    /\ trace = <<>>
    /\ access_token = "none"

----------------------------------------------------------------------------
(* C20 *)

\* C20: the referral claim (POST invite/claimGiftBox) is sent at most once
\* over a run, only for an account flagged as first run, and only right
\* after the first successful login of the run.
C20_ReferralOnce ==
    /\ referrals <= 1
    /\ referrals > 0 => is_first_run
    /\ \A i \in Idx :
          trace[i].op = "claimGiftBox" =>
              /\ i = 4
              /\ trace[2].op = "login"
              /\ trace[2].ok
              /\ trace[2].tok = "none"

----------------------------------------------------------------------------
(* C19 *)

\* the task of account a has ended, or ended the interpreter
Failed(a) == runners[a].at \in {"exit", "returned", "abandoned"}

\* C19: the failure of one account (failed authentication, malformed
\* configuration record, failed initialisation) does not end the process:
\* the other accounts can go on.
C19_FailureStaysLocal ==
    (\E a \in Accounts : Failed(a)) => process = "running"

----------------------------------------------------------------------------
(* C11 *)

\* the positions at which the next request is a click, check or claim call
\* for the item the walk is at
ItemPositions == {"signin_claim", "task_click", "task_check", "task_claim",
                  "mission_click", "mission_check", "mission_claim"}
KindAt == CASE pc = "signin_claim" -> "signin"
            [] pc \in {"task_click", "task_check", "task_claim"} -> "task"
            [] OTHER -> "mission"
AtFollowedItem == pc \in ItemPositions /\ Followed(KindAt)

\* claim calls one sweep can make for one item: a mission is attempted
\* MaxMissionAttempts times, a task or a sign-in once
ClaimsPerSweep(kind) == IF kind = "mission" THEN MaxMissionAttempts ELSE 1

\* C11 as stated: over two sweeps in succession, with a remote that marks an
\* item done once its claim succeeded, the claim call is issued at most once
\* in total for any single sign-in, mission or task, and no click, check or
\* claim call is issued for an item that is not pending.
C11_ClaimedAtMostOnce ==
    /\ \A kind \in DOMAIN items : \A id \in Ids : items[kind][id].claims <= 1
    /\ AtFollowedItem => items[KindAt][Current].status = Pending

\* C11: over two sweeps in succession, with a remote that marks an item done
\* once its claim succeeded, every click, check and claim call is for an item
\* that is pending at the remote: none is issued for an item fetched as not
\* pending, and none after a claim call for it succeeded.  A claim call that
\* failed can be repeated, once more in the same sweep for a mission and in
\* the next sweep for every kind: at most ClaimsPerSweep claim calls per item
\* and sweep.
C11_NoCallOnceDone ==
    /\ AtFollowedItem => items[KindAt][Current].status = Pending
    /\ \A kind \in DOMAIN items : \A id \in Ids :
        items[kind][id].claims <= round * ClaimsPerSweep(kind)

\* the second sweep is over: a mission whose first claim call failed and
\* whose second one succeeded in the first sweep is done, and the second
\* sweep fetched the list and walked no item of it
C11_Witness ==
    /\ round = 2
    /\ pc = "game"
    /\ Followed("mission")
    /\ walk = <<>>
    /\ \E i \in Idx : trace[i].op = "get_daily_missions" /\ trace[i].ok
    /\ \E id \in Ids :
        items["mission"][id] = [status |-> Done, claims |-> MaxMissionAttempts]

----------------------------------------------------------------------------
(* C21 *)

\* the positions of the sweep, and the requests made there
SweepPositions == {"referral", "offline", "offline_claim", "signin", "signin_claim",
                   "squad", "squad_rec", "squad_join", "profile",
                   "activity", "activity_join",
                   "task_list", "task_click", "task_check", "task_claim", "task_bonus",
                   "mission_list", "mission_click", "mission_check", "mission_claim"}
SweepOps == {"get_offline_bonus_info", "claim_offline_bonus", "get_signin_list",
             "claim_signin", "get_squad_info", "get_recommended_squads", "join_squad",
             "get_activity_status", "join_activity",
             "get_task_list", "click_task", "check_task", "claim_task_reward",
             "get_task_bonus_info", "get_daily_missions",
             "clickDailyMission", "checkDailyMission", "claimReward"}
IsSweepEntry(e) == e.op \in SweepOps \/ e.tok = "enter"
Reauthenticated == Len(trace) >= 2 /\ trace[2].op = "login" /\ trace[2].ok

\* C21: a sweep call is issued only in an iteration that re-authenticated
\* with success, and after the login; an iteration that began with a token
\* younger than 3600 s issues none.
C21_SweepOnlyAfterLogin ==
    /\ \A i \in Idx : IsSweepEntry(trace[i]) => (Reauthenticated /\ i > 2)
    /\ pc \in SweepPositions => Reauthenticated
    /\ ~staleAtStart => (pc \notin SweepPositions
                         /\ \A i \in Idx : ~IsSweepEntry(trace[i]))

\* an iteration that re-authenticated is in its sweep and has claimed a task
C21_Witness ==
    /\ Reauthenticated
    /\ pc = "task_bonus"
    /\ Called("claim_task_reward")

----------------------------------------------------------------------------
(* C22 *)

\* what process_bot_logic and login keep for one account
Private(r) == [token |-> r.token, stamp |-> r.stamp,
               balance |-> r.balance, turbo |-> r.turbo]

\* a step of the task of account b
AccountStep(b) ==
    \/ Construct(b) \/ AccountInitialize(b) \/ AccountGate(b)
    \/ AccountIterate(b) \/ AccountLogin(b) \/ AccountPoll(b)

\* C22: for every interleaving of two accounts' tasks, a request of an
\* account carries no token or that account's own, no request (login, which
\* passes HEADERS as caller headers, included) changes the module-level
\* HEADERS dict, and a step of one account leaves the token, token
\* timestamp, balance and turbo flag of the other as they were.
C22_NoSharedState ==
    [][/\ dicts'["HEADERS"] = dicts["HEADERS"]
       /\ lastSent'.from \in Accounts
             => lastSent'.token \in {"none", TokenOf(lastSent'.from)}
       /\ \A a, b \in Accounts :
             (a # b /\ AccountStep(b))
                => Private(runners'[a]) = Private(runners[a])
      ]_vars

\* both accounts hold their tokens, A has logged in a second time and B's
\* last request went out after it with B's token
C22_Witness ==
    /\ runners["A"].token = TokenOf("A")
    /\ runners["A"].stamp >= 2
    /\ runners["B"].token = TokenOf("B")
    /\ runners["B"].at = "logic"
    /\ runners["B"].turbo
    /\ ~runners["A"].turbo
    /\ lastSent = [from |-> "B", token |-> TokenOf("B")]

----------------------------------------------------------------------------
(* C23 *)

\* C23: after a level_up call that succeeded, no further level_up call is
\* issued before the boost state has been fetched again.
C23_RefetchBetweenUpgrades ==
    \A i, j \in Idx :
        (/\ i < j
         /\ trace[i].op = "level_up"
         /\ trace[i].ok
         /\ trace[j].op = "level_up")
            => \E k \in Idx : i < k /\ k < j /\ trace[k].op = "get_boosts_info"

----------------------------------------------------------------------------
(* C24 *)

\* the positions inside `if available_energy > min_energy:` up to the tap,
\* and the requests made there
TapPositions == {"apply_turbo", "turbo_box", "turbo_collect", "tap"}
TapCallOps == TapOps \cup {"apply_turbo_boost"}

\* entry i of the log after the step is one the step wrote
Written(i) == i > Len(trace) \/ trace'[i] # trace[i]

\* C24: with available energy <= min energy (0 included) the iteration
\* issues no send_taps, send_taps_with_turbo or apply_turbo_boost call,
\* whatever the turbo flag and the number of turbo activations left.
C24_NoTapAtLowEnergy ==
    [][/\ (pc = "boosts" /\ available_energy <= min_energy)
             => pc' \notin TapPositions
       /\ pc' \in TapPositions => available_energy' > min_energy'
       /\ \A i \in 1..Len(trace') :
             (trace'[i].op \in TapCallOps /\ Written(i))
                => (pc \in TapPositions /\ available_energy > min_energy)
      ]_vars

\* the poll found energy at or below the threshold while the turbo flag was
\* set and an activation was left: the iteration went on without a tap
C24_Witness ==
    /\ pc \in {"start", "level_up_tap"}
    /\ BoostsFetched
    /\ available_energy <= min_energy
    /\ active_turbo
    /\ boosts_info.specialBoxLeftRecoveryCount > 0
    /\ \A i \in Idx : trace[i].op \notin TapCallOps

----------------------------------------------------------------------------
(* C25 *)

\* C25: between an apply_turbo_boost call that succeeded and the turbo tap
\* that follows it (get_special_box_info, collectSpecialBoxCoin) the game
\* state and the boost state are polled again.
C25_TurboTapNextCycle ==
    \A i, j \in Idx :
        (/\ i < j
         /\ trace[i].op = "apply_turbo_boost"
         /\ trace[i].ok
         /\ trace[j].op \in {"get_special_box_info", "collectSpecialBoxCoin"})
            => /\ \E k \in Idx : i < k /\ k < j /\ trace[k].op = "get_game_data"
               /\ \E k \in Idx : i < k /\ k < j /\ trace[k].op = "get_boosts_info"

----------------------------------------------------------------------------
(* C26 *)

\* C26: after a turbo tap whose collectSpecialBoxCoin call was answered with
\* a payload, collectStatus true or false, the turbo flag is cleared; after
\* one answered without a payload the flag is still set.
C26_FlagClearedOnDefinitive ==
    Called("collectSpecialBoxCoin") =>
        /\ tap_data # "empty" => ~active_turbo
        /\ tap_data = "empty" => active_turbo

----------------------------------------------------------------------------
(* C27 *)

\* how often the logged iteration entered a stage of the sweep
Entered(stage) == Cardinality({i \in Idx : trace[i] = Enter(stage)})

\* C27: an iteration that re-authenticated enters process_tasks and
\* process_daily_missions exactly once each before it polls the game state
\* or ends, whichever step of the sweep failed before them.
C27_SweepRunsToEnd ==
    /\ Entered("process_tasks") <= 1
    /\ Entered("process_daily_missions") <= 1
    /\ (Reauthenticated /\ pc \notin SweepPositions)
          => (Entered("process_tasks") = 1 /\ Entered("process_daily_missions") = 1)

----------------------------------------------------------------------------
(* C28 *)

\* the entries of the sign-in list that come before entry id
Before(id) == {other \in Ids : other < id}

----------------------------------------------------------------------------
(* C29 *)

\* C29: process_squad makes no join_squad call for an account that belongs
\* to a squad; otherwise it makes at most 3 join_squad calls in a sweep, for
\* the first squads of the recommended list, and none after a join that
\* succeeded.
C29_JoinOnlyWithoutSquad ==
    /\ Called("join_squad") => \A i \in Idx : trace[i] # Membership(TRUE)
    /\ Count("join_squad") <= MaxSquadTries
    /\ \A i, j \in Idx :
          (i < j /\ trace[i].op = "join_squad" /\ trace[j].op = "join_squad")
             => ~trace[i].ok

----------------------------------------------------------------------------
(* C30 *)

\* the calls process_tasks has made for the tasks of its lists, in order
TaskOps == {"click_task", "check_task", "claim_task_reward"}
TaskCalls == SelectSeq(trace, LAMBDA e : e.op \in TaskOps)

\* C30: for a pending task the calls are click_task, check_task and
\* claim_task_reward in that order, each at most once: check_task only right
\* after a click_task that succeeded, claim_task_reward only right after a
\* check_task that succeeded, and after a call that failed the next call, if
\* any, is the click_task of the next task; the walk goes on to the last
\* pending task whatever failed.
C30_ClickCheckClaim ==
    /\ \A i \in 1..Len(TaskCalls) :
          /\ TaskCalls[i].op = "check_task"
                => (i > 1 /\ TaskCalls[i - 1].op = "click_task" /\ TaskCalls[i - 1].ok)
          /\ TaskCalls[i].op = "claim_task_reward"
                => (i > 1 /\ TaskCalls[i - 1].op = "check_task" /\ TaskCalls[i - 1].ok)
          /\ (TaskCalls[i].op = "click_task" /\ i > 1)
                => \/ TaskCalls[i - 1].op = "claim_task_reward"
                   \/ ~TaskCalls[i - 1].ok
    /\ pc = "task_check"
          => (TaskCalls[Len(TaskCalls)].op = "click_task" /\ TaskCalls[Len(TaskCalls)].ok)
    /\ pc = "task_claim"
          => (TaskCalls[Len(TaskCalls)].op = "check_task" /\ TaskCalls[Len(TaskCalls)].ok)
    /\ Count("click_task") <= MaxTasks
    /\ pc \in {"task_click", "task_check", "task_claim"}
          => (todo >= 1 /\ Count("click_task") + todo <= MaxTasks + 1)
    /\ pc = "task_bonus" => todo = 0

\* the check of the first task failed: no claim was made for it, and the
\* second task has been clicked
C30_Witness ==
    /\ Len(TaskCalls) = 3
    /\ TaskCalls[1].op = "click_task" /\ TaskCalls[1].ok
    /\ TaskCalls[2].op = "check_task" /\ ~TaskCalls[2].ok
    /\ TaskCalls[3].op = "click_task" /\ TaskCalls[3].ok
    /\ pc = "task_check"

----------------------------------------------------------------------------
(* C31 *)

MissionPositions == {"mission_click", "mission_check", "mission_claim"}
MissionOps == {"clickDailyMission", "checkDailyMission", "claimReward"}
MissionCalls == SelectSeq(trace, LAMBDA e : e.op \in MissionOps)

\* what a step of process_daily_mission added to the log
Added == SubSeq(trace', Len(trace) + 1, Len(trace'))
\* the mission is over: the walk moves to the next one
MissionOver == todo' = todo - 1 /\ attempt' = 0 /\ pc' \in {"mission_click", "game"}
\* the call raised inside process_daily_mission (a body without `data`)
RaisedInMission == Len(Added) >= 2 /\ Added[2] = Sleep(ErrorDelay)

\* the calls of the log are click, check and claim in that order: a check
\* right after a click that succeeded, a claim right after a check that
\* succeeded, a click first or after a claim or a call that failed
MissionOrder ==
    /\ \A i \in 1..Len(MissionCalls) :
          /\ MissionCalls[i].op = "checkDailyMission"
                => (i > 1 /\ MissionCalls[i - 1].op = "clickDailyMission"
                          /\ MissionCalls[i - 1].ok)
          /\ MissionCalls[i].op = "claimReward"
                => (i > 1 /\ MissionCalls[i - 1].op = "checkDailyMission"
                          /\ MissionCalls[i - 1].ok)
          /\ (MissionCalls[i].op = "clickDailyMission" /\ i > 1)
                => \/ MissionCalls[i - 1].op = "claimReward"
                   \/ ~MissionCalls[i - 1].ok
    /\ pc \in MissionPositions =>
          /\ attempt \in 0..(MaxMissionAttempts - 1)
          /\ todo >= 1
          /\ Count("clickDailyMission")
                <= MaxMissionAttempts * (MaxPending - todo) + attempt
                   + (IF pc = "mission_click" THEN 0 ELSE 1)
    /\ Count("clickDailyMission") <= MaxMissionAttempts * MaxPending

\* one call of process_daily_mission: a call that succeeded leads to the next
\* sub-step, and the claim that succeeded ends the mission; a call that came
\* back with nothing or with empty data restarts from click after 5 s in the
\* first attempt, and ends the mission in the second
MissionStep ==
    (pc \in MissionPositions /\ trace' # trace) =>
        /\ Len(Added) >= 1
        /\ Added[1].op = (CASE pc = "mission_click" -> "clickDailyMission"
                            [] pc = "mission_check" -> "checkDailyMission"
                            [] OTHER -> "claimReward")
        /\ \A i \in 2..Len(Added) : IsSleep(Added[i])
        /\ IF Added[1].ok
           THEN CASE pc = "mission_click" ->
                       pc' = "mission_check" /\ attempt' = attempt /\ todo' = todo
                  [] pc = "mission_check" ->
                       pc' = "mission_claim" /\ attempt' = attempt /\ todo' = todo
                  [] OTHER -> MissionOver
           ELSE IF RaisedInMission THEN MissionOver
           ELSE IF attempt = 0
           THEN /\ pc' = "mission_click" /\ attempt' = 1 /\ todo' = todo
                /\ Added = <<Added[1], Sleep(MissionRetryDelay)>>
           ELSE MissionOver

\* C31: for a pending daily mission the click, check, claim sequence runs at
\* most twice in a sweep: a sub-step that fails in the first attempt restarts
\* the sequence from click once, after 5 s; a failure in the second attempt
\* ends the mission with no further call; the claim is issued only after the
\* click and the check of the same attempt succeeded, and a claim that
\* succeeded ends the mission.
C31_MissionAtMostTwice == []MissionOrder /\ [][MissionStep]_vars

\* the check of the first attempt failed, the sequence was restarted from
\* click, and the claim of the second attempt failed: the mission was given
\* up without a third click
C31_Witness ==
    /\ pc = "game"
    /\ Len(MissionCalls) = 5
    /\ MissionCalls[1].op = "clickDailyMission" /\ MissionCalls[1].ok
    /\ MissionCalls[2].op = "checkDailyMission" /\ ~MissionCalls[2].ok
    /\ MissionCalls[3].op = "clickDailyMission" /\ MissionCalls[3].ok
    /\ MissionCalls[4].op = "checkDailyMission" /\ MissionCalls[4].ok
    /\ MissionCalls[5].op = "claimReward" /\ ~MissionCalls[5].ok

----------------------------------------------------------------------------
(* C32 *)

Installed == transport.clients[transport.http_client]

\* the recorded proxy is the proxy of the installed client, every client
\* made before it is closed, the installed one is open while the account
\* runs, and a request made since the gate went through the installed client
TransportCoherent ==
    transport.at # "run" =>
        /\ transport.http_client \in 1..Len(transport.clients)
        /\ Installed.proxy = transport.current_proxy
        /\ \A i \in 1..Len(transport.clients) :
              i # transport.http_client => transport.clients[i].closed
        /\ transport.at \in {"proxy_gate", "logic"} => ~Installed.closed
        /\ transport.used \in {NoClient, transport.http_client}

\* the client and the recorded proxy are what they were
TransportKept ==
    /\ transport'.current_proxy = transport.current_proxy
    /\ transport'.http_client = transport.http_client
    /\ transport'.clients = transport.clients

\* one pass of the gate: either the proxy was replaced, and then the client
\* that was installed is closed and a client made for the new proxy is
\* installed when the gate lets the account on; or the proxy was healthy, or
\* proxies are not used, or no working proxy was found, or the check raised,
\* and then nothing of the transport changed
GateStep ==
    transport.at = "proxy_gate" =>
        /\ transport'.checked = "off" <=> ~transport.use_proxy
        /\ IF transport'.checked = "replaced"
           THEN /\ transport'.at = "logic"
                /\ transport'.http_client = Len(transport.clients) + 1
                /\ Len(transport'.clients) = Len(transport.clients) + 1
                /\ transport'.clients[transport'.http_client]
                      = [proxy |-> transport'.current_proxy, closed |-> FALSE]
                /\ transport'.current_proxy \in Proxies
                /\ transport'.clients[transport.http_client].closed
                /\ \A i \in 1..Len(transport.clients) :
                      transport'.clients[i].proxy = transport.clients[i].proxy
           ELSE /\ TransportKept
                /\ transport'.at = IF transport'.checked \in {"none found", "raised"}
                                   THEN "proxy_gate" ELSE "logic"

\* a request goes through the installed client, and nothing but the gate
\* changes the recorded proxy or the installed client
RequestStep ==
    transport.at = "logic" =>
        /\ transport'.current_proxy = transport.current_proxy
        /\ transport'.http_client = transport.http_client
        /\ transport'.used # transport.used => transport'.used = transport.http_client

\* C32: when check_and_update_proxy replaces the proxy, the client that was
\* installed is closed and a client bound to the new proxy is installed
\* before the gate returns; every request after that goes through the new
\* client; the recorded proxy is always the proxy of the installed client;
\* with a healthy proxy, or with USE_PROXY false, the client and the
\* recorded proxy stay as they were.
C32_ClientFollowsProxy == []TransportCoherent /\ [][GateStep /\ RequestStep]_vars

\* the proxy was replaced twice, by a different one the second time: the two
\* earlier clients are closed and a request went through the third
C32_Witness ==
    /\ transport.at = "logic"
    /\ Len(transport.clients) = 3
    /\ transport.http_client = 3
    /\ transport.used = 3
    /\ transport.checked = "replaced"
    /\ transport.clients[1].closed /\ transport.clients[2].closed
    /\ transport.clients[2].proxy # transport.clients[3].proxy

----------------------------------------------------------------------------
(* C33 *)

\* the account was stopped by a fatal error, or the iteration about to start
\* lies beyond the iterations explored
Fatal == pc \in {"fatal", "abandoned"}
BeyondBounds == pc = "start" /\ ~WithinBounds(tokenAge)

\* C33: while every call and every sleep returns and no fatal error occurs,
\* the loop of process_bot_logic comes to its poll again and again: from
\* every position inside the loop, a coarse sleep just over included, the
\* account gets to the poll of the game state, where the request of the
\* poll is the step to take; no position inside the loop is one the account
\* stays at.
C33_PollsAgain ==
    /\ (pc \in LoopPositions) ~> (pc = "game" \/ Fatal \/ BeyondBounds)
    /\ [](pc = "game" => ENABLED <<GetGameData>>_vars)

\* the poll after a coarse sleep: the token is older than the shortest coarse
\* sleep and still valid, and the iteration has gone straight to the poll
C33_Witness ==
    /\ pc = "game"
    /\ trace = <<>>
    /\ tokenAge >= SleepByMinEnergyMin
    /\ tokenAge < TokenTTL

----------------------------------------------------------------------------
(* C34 *)

\* an iteration is over and the next one is about to start
IterationOver == pc = "start" /\ trace # <<>>

\* the iteration slept: a sleep of positive duration is in its log, or, for
\* an iteration that logged in, time has passed since the login (the sleeps
\* of the stages of a sweep are not kept in the log)
SleptInIteration ==
    \/ \E i \in Idx : IsSleep(trace[i]) /\ trace[i].arg > 0
    \/ Reauthenticated /\ tokenAge > 0

\* C34: between the starts of two consecutive iterations of the loop at
\* least one sleep of positive duration occurs, whatever the outcome of the
\* iteration.
C34_NoHotLoop == IterationOver => SleptInIteration

----------------------------------------------------------------------------
(* C35 *)

\* C35: every request of the loop other than the login carries the access
\* token in its `token` header, and is sent only after a login that
\* succeeded: the token is held when it is sent, and in an iteration that
\* re-authenticates the successful login comes before it.
C35_TokenOnEveryRequest ==
    \A i \in Idx :
        (IsRequest(trace[i]) /\ trace[i].op # "login") =>
            /\ trace[i].tok \in {"fresh", "stale"}
            /\ access_token = "tok"
            /\ staleAtStart => (i > 2 /\ trace[2].op = "login" /\ trace[2].ok)

\* the first login of the run was sent without a token and succeeded, and a
\* request of the sweep after it carries the new token
C35_Witness ==
    /\ Len(trace) >= 3
    /\ trace[2].op = "login" /\ trace[2].tok = "none" /\ trace[2].ok
    /\ \E i \in Idx : trace[i].op \in SweepOps /\ trace[i].tok = "fresh"

----------------------------------------------------------------------------
(* C36 *)

\* the primitives a poll iteration calls
PollOps == {"get_game_data", "get_boosts_info", "apply_turbo_boost",
            "get_special_box_info", "collectSpecialBoxCoin", "send_taps",
            "get_profile_data", "level_up"}

\* C36: apply_energy_boost (POST game/recoverCoinPool) is never called,
\* whatever the number of energy-boost activations left and the energy: the
\* requests of a poll iteration are those of the poll, the turbo boost, the
\* taps, the re-fetches and the upgrades, also when the boost state fetched
\* reports activations left.
C36_NoEnergyBoost ==
    /\ \A i \in Idx : trace[i].op # "apply_energy_boost"
    /\ \A i \in Idx : IsRequest(trace[i]) => trace[i].op \in PollOps
    /\ (\E i \in Idx : trace[i].op = "get_boosts_info" /\ trace[i].ok)
          => boosts_info.coinPoolLeftRecoveryCount = items["energy_boost"]

\* an activation was there to use and the energy was at or below the
\* threshold, above 0: the iteration ended with the two requests of the poll
C36_Witness ==
    /\ pc = "start"
    /\ boosts_info.coinPoolLeftRecoveryCount > 0
    /\ available_energy > 0
    /\ available_energy <= min_energy
    /\ Len(trace) = 2
    /\ trace[2].op = "get_boosts_info" /\ trace[2].ok

----------------------------------------------------------------------------
(* C37 *)

\* the attempts of the activation, and those that reached the server
Attempts == {i \in 1..Len(call.log) : ~IsSleep(call.log[i])}
Answered == {i \in Attempts : call.log[i].op # "neterr"}

\* C37: an attempt of make_request that gets status 200 with a body that
\* does not decode is followed like a network failure: by a sleep of
\* 5 s * (attempt number) and another attempt while fewer than 3 were made,
\* and by the result None after the third; one call sends its request up to
\* 3 times, and never more.
C37_UndecodableIsRetried ==
    /\ Cardinality(Attempts) <= max_retries
    /\ \A i \in Attempts :
          call.log[i].op \in {"undecodable", "neterr"} =>
              IF call.log[i].arg < max_retries - 1
              THEN /\ i < Len(call.log)
                   /\ call.log[i + 1] = Sleep(base_delay * (call.log[i].arg + 1))
                   /\ call.at = "attempt" \/ i + 1 < Len(call.log)
                   /\ i + 1 < Len(call.log)
                         => (i + 2 \in Attempts /\ call.log[i + 2].arg = call.log[i].arg + 1)
              ELSE /\ i = Len(call.log)
                   /\ call.at = "done"
                   /\ call.result = "None"

\* one call whose request reached the server three times: each attempt got
\* status 200 and a body that did not decode, and the call returned None
C37_Witness ==
    /\ call.at = "done"
    /\ call.result = "None"
    /\ Cardinality(Answered) = max_retries
    /\ \A i \in Attempts : call.log[i].op = "undecodable"

----------------------------------------------------------------------------
(* C38 *)

HasTonAddress(d, t) == d.accounts[t].ton_address # NoAddress

\* one call of create_and_save_wallet, for the session of disk'.last
WalletStep ==
    LET s == disk'.last.session IN
    disk' # disk =>
        /\ disk.wallet_config[s] # Absent =>
              /\ disk'.last.path = "existing"
              /\ disk'.last.result = disk.wallet_config[s]
              /\ disk'.wallet_config = disk.wallet_config
              /\ disk'.generated = disk.generated
        /\ \A t \in Sessions :
              HasTonAddress(disk, t) => disk'.accounts[t] = disk.accounts[t]
        /\ disk'.temp = {}

\* C38: with an entry for the session in the wallet config,
\* create_and_save_wallet returns that entry, generates no wallet and leaves
\* the wallet config as it is; no temp wallet file is left after a call,
\* whether the generation succeeded or raised; a ton_address that is there
\* is never overwritten.
C38_WalletOnce == [](disk.temp = {}) /\ [][WalletStep]_vars

\* a wallet was generated for a session whose account had a ton_address, and
\* a second call for the session returned the entry of the first: one wallet
\* generated, the ton_address still the one the account had
C38_Witness ==
    /\ disk.last.path = "existing"
    /\ disk.generated = 1
    /\ disk.last.result = {Entry(Address("prefixed", 1))}
    /\ disk.wallet_config[disk.last.session] = disk.last.result
    /\ disk.accounts_file
    /\ disk.accounts[disk.last.session].ton_address = Address("plain", 0)

====
